---------------------------- MODULE Spec2Model ----------------------------
(***************************************************************************)
(* A model of mini-workspace: the per-client rate limiter                  *)
(* (lib/rateLimit.ts) and the document and ask route handlers              *)
(* (api/documents/route.ts, api/ask/route.ts) over the namespaced vector   *)
(* index (lib/pinecone.ts).                                                *)
(*                                                                         *)
(* JavaScript runs a handler to its next await without interruption, so    *)
(* each action is one synchronous segment of a handler: from its entry, or *)
(* from the return of an awaited call, to the next await or the response.  *)
(***************************************************************************)
EXTENDS Integers, Naturals, Sequences, FiniteSets, TLC

VARIABLES
    now,             \* Date.now(), in milliseconds
    ticks,           \* how often the clock has advanced
    rateLimitStore,  \* rateLimitStore, for the identities followed one by one
    otherKeys,       \* rateLimitStore, the entries of all other identities
    calls,           \* checkRateLimit calls made so far
    wreq,            \* requests running under withRateLimit
    last,            \* the last checkRateLimit call: arguments, result, context
    win,             \* per identity: the calls of its current window
    refStore,        \* a store keyed by (identity, policy), fed the same calls
    index,           \* the vector index: the records of each namespace
    reqs,            \* the requests to the documents and ask routes
    emb,             \* a getEmbeddingsBatch call and its getEmbedding calls
    chunker,         \* a chunkText call: its arguments and its result
    extraction,      \* an upload from its file to its call of chunkText
    health           \* a request to the health route and its probes

vars == <<now, ticks, rateLimitStore, otherKeys, calls, wreq, last, win, refStore,
          index, reqs, emb, chunker, extraction, health>>

-----------------------------------------------------------------------------
(* Bounds of the model *)

MaxTicks == 2
MaxCalls == 4
MaxWrapCalls == 3
MaxPolicyCalls == 4
MaxInFlight == 3
MaxReqs == 2
MaxChunks == 6
MaxBatch == 2
MaxTextLen == 5
MaxParagraphLen == 2
MaxMaxLength == 8

-----------------------------------------------------------------------------
(* Arithmetic *)

Min(a, b) == IF a <= b THEN a ELSE b

RECURSIVE SumOver(_, _)
SumOver(f, S) ==
    IF S = {} THEN 0
    ELSE LET x == CHOOSE y \in S : TRUE
         IN  f[x] + SumOver(f, S \ {x})

-----------------------------------------------------------------------------
(* lib/rateLimit.ts *)

Null == "null"

windowMs == 60 * 1000

defaultConfig == [windowMs |-> 60 * 1000, maxRequests |-> 30]

uploadRateLimit == [windowMs |-> 60 * 1000, maxRequests |-> 10]

askRateLimit == [windowMs |-> 60 * 1000, maxRequests |-> 20]

healthRateLimit == [windowMs |-> 60 * 1000, maxRequests |-> 60]

NamedConfigs == {defaultConfig, uploadRateLimit, askRateLimit, healthRateLimit}

\* Policies a caller of checkRateLimit or withRateLimit may pass: any
\* maxRequests >= 1.
TestLimits == {1, 2}

TestConfigs == {[windowMs |-> 60 * 1000, maxRequests |-> n] : n \in TestLimits}

Configs == NamedConfigs \cup TestConfigs

\* The size above which checkRateLimit drops the expired entries.
CleanUpThreshold == 10000

\* The x-forwarded-for and x-real-ip headers requests carry.
Headers ==
    {[forwardedFor |-> "10.0.0.1 , 10.0.0.2", realIP |-> "10.0.0.2"],
     [forwardedFor |-> Null, realIP |-> "10.0.0.1"],
     [forwardedFor |-> Null, realIP |-> Null]}

\* A request whose x-forwarded-for list starts with a blank element.
BlankForwardedFor == [forwardedFor |-> " , 10.0.0.2", realIP |-> "10.0.0.2"]

\* String.split(',')[0] on the header values above.
SplitFirst(s) ==
    CASE s = "10.0.0.1 , 10.0.0.2" -> "10.0.0.1 "
      [] s = " , 10.0.0.2" -> " "
      [] OTHER -> s

\* String.trim() on the strings above.
Trim(s) ==
    CASE s = "10.0.0.1 " -> "10.0.0.1"
      [] s = " " -> ""
      [] OTHER -> s

getClientIP(headers) ==
    IF headers.forwardedFor # Null
    THEN Trim(SplitFirst(headers.forwardedFor))
    ELSE IF headers.realIP # Null
         THEN headers.realIP
         ELSE "unknown"

IPs == {getClientIP(h) : h \in Headers}

\* The absence of a key in the Map.
NoEntry == [count |-> 0, resetTime |-> 0 - 1]

\* The entries of the identities not followed one by one: n keys, each with
\* one request in a window that ends at resetTime.
NoOtherKeys == [n |-> 0, resetTime |-> 0]

StoreSize(store, other) ==
    Cardinality({ip \in DOMAIN store : store[ip] # NoEntry}) + other.n

Expired(entry, t) == entry.resetTime < t

\* A clean-up that runs on every call.
CleanUpNeededAlways(store, other) == TRUE

\* rateLimitStore.size > 10000
CleanUpNeeded(store, other) == StoreSize(store, other) > CleanUpThreshold

\* A clean-up loop that drops every entry, live or expired.
CleanUpStoreAll(store, t) == [ip \in DOMAIN store |-> NoEntry]

\* rateLimitStore after the clean-up loop.
CleanUpStore(store, t) ==
    [ip \in DOMAIN store |->
        IF store[ip] # NoEntry /\ Expired(store[ip], t) THEN NoEntry ELSE store[ip]]

CleanUpOther(other, t) ==
    IF other.n > 0 /\ Expired(other, t) THEN NoOtherKeys ELSE other

StartsNewWindow(entry, t) == entry = NoEntry \/ Expired(entry, t)

FreshEntry(t, config) == [count |-> 1, resetTime |-> t + config.windowMs]

\* A limit test that admits one request too many.
LimitReachedOffByOne(entry, config) == entry.count > config.maxRequests

LimitReached(entry, config) == entry.count >= config.maxRequests

\* An increment that is lost.
IncrementLost(entry) == entry

Incremented(entry) == [entry EXCEPT !.count = @ + 1]

DeniedResult(entry, t) ==
    [allowed |-> FALSE, remaining |-> 0, resetIn |-> entry.resetTime - t]

\* checkRateLimit(ip, config) called at time t on the store (store, other):
\* the store it leaves and the result it returns.
checkRateLimit(store, other, ip, config, t) ==
    LET entry == store[ip]
        clean == CleanUpNeeded(store, other)
        store1 == IF clean THEN CleanUpStore(store, t) ELSE store
        other1 == IF clean THEN CleanUpOther(other, t) ELSE other
    IN  IF StartsNewWindow(entry, t)
        THEN [store |-> [store1 EXCEPT ![ip] = FreshEntry(t, config)],
              other |-> other1,
              result |-> [allowed |-> TRUE,
                          remaining |-> config.maxRequests - 1,
                          resetIn |-> config.windowMs]]
        ELSE IF LimitReached(entry, config)
        THEN [store |-> store1,
              other |-> other1,
              result |-> DeniedResult(entry, t)]
        ELSE [store |-> [store1 EXCEPT ![ip] = Incremented(entry)],
              other |-> other1,
              result |-> [allowed |-> TRUE,
                          remaining |-> config.maxRequests - Incremented(entry).count,
                          resetIn |-> entry.resetTime - t]]

\* Math.floor(resetIn / 1000) for resetIn >= 0.
FloorSeconds(resetIn) == resetIn \div 1000

\* Math.ceil(resetIn / 1000) for resetIn >= 0.
CeilSeconds(resetIn) == (resetIn + 999) \div 1000

rateLimitResponse(resetIn) ==
    [status |-> 429, retryAfter |-> CeilSeconds(resetIn), remaining |-> 0]


-----------------------------------------------------------------------------
(* What the claims about the rate limiter read: the last call and the      *)
(* calls of each identity's current window.                                *)

NoDenial == [t |-> 0 - 1, r |-> 0 - 1]

NoResult == [allowed |-> TRUE, remaining |-> 0, resetIn |-> 0]

NoCall ==
    [seq |-> 0, ip |-> Null, config |-> defaultConfig, time |-> 0,
     result |-> NoResult, k |-> 0, pure |-> FALSE, fresh |-> FALSE,
     prev |-> NoDenial, cleaned |-> FALSE, refResult |-> NoResult]

NoWindow ==
    [n |-> 0, configs |-> {}, admitted |-> [c \in Configs |-> 0],
     fresh |-> FALSE, denied |-> NoDenial]

\* The window record of ip after a call with this config and result.
WindowAfter(w, entry, config, result, t) ==
    LET opens == StartsNewWindow(entry, t)
        base == IF opens
                THEN [NoWindow EXCEPT !.fresh = (entry = NoEntry)]
                ELSE w
    IN  [base EXCEPT
            !.n = @ + 1,
            !.configs = @ \cup {config},
            !.admitted[config] = IF result.allowed THEN @ + 1 ELSE @,
            !.denied = IF result.allowed THEN NoDenial
                       ELSE [t |-> t, r |-> result.resetIn]]

\* The same algorithm on a store keyed by (identity, policy).
RefCheck(ref, ip, config, t) ==
    LET entry == ref[<<ip, config>>]
    IN  IF StartsNewWindow(entry, t)
        THEN [entry |-> FreshEntry(t, config),
              result |-> [allowed |-> TRUE,
                          remaining |-> config.maxRequests - 1,
                          resetIn |-> config.windowMs]]
        ELSE IF LimitReached(entry, config)
        THEN [entry |-> entry, result |-> DeniedResult(entry, t)]
        ELSE [entry |-> Incremented(entry),
              result |-> [allowed |-> TRUE,
                          remaining |-> config.maxRequests - Incremented(entry).count,
                          resetIn |-> entry.resetTime - t]]

\* One call of checkRateLimit(ip, config) at the current time: the store
\* and the records of the call.
CallCheckRateLimit(ip, config) ==
    LET r == checkRateLimit(rateLimitStore, otherKeys, ip, config, now)
        ref == IF config \in NamedConfigs
               THEN RefCheck(refStore, ip, config, now)
               ELSE [entry |-> NoEntry, result |-> NoResult]
        w == WindowAfter(win[ip], rateLimitStore[ip], config, r.result, now)
    IN  /\ rateLimitStore' = r.store
        /\ otherKeys' = r.other
        /\ calls' = calls + 1
        /\ win' = [win EXCEPT ![ip] = w]
        /\ refStore' = IF config \in NamedConfigs
                       THEN [refStore EXCEPT ![<<ip, config>>] = ref.entry]
                       ELSE refStore
        /\ last' = [seq |-> calls + 1, ip |-> ip, config |-> config, time |-> now,
                    result |-> r.result, k |-> w.n,
                    pure |-> (w.configs = {config}), fresh |-> w.fresh,
                    prev |-> win[ip].denied,
                    cleaned |-> CleanUpNeeded(rateLimitStore, otherKeys),
                    refResult |-> ref.result]

-----------------------------------------------------------------------------
(* The admission check that opens every route handler, and the clock *)

\* A request arrives: the handler reads the identity and calls
\* checkRateLimit with its policy.
Admission(headers, config) ==
    /\ CallCheckRateLimit(getClientIP(headers), config)
    /\ UNCHANGED <<health, extraction, chunker, emb, now, ticks, wreq, index, reqs>>

\* The clock advances: within the window, or by a whole window.
TickSteps == {1, windowMs}

Tick(d) ==
    /\ ticks < MaxTicks
    /\ now' = now + d
    /\ ticks' = ticks + 1
    /\ UNCHANGED <<health, extraction, chunker, emb, rateLimitStore, otherKeys, calls, wreq, last, win, refStore, index, reqs>>

-----------------------------------------------------------------------------
(* withRateLimit(handler, config): the wrapped handler of one request *)

IdleRequest == [pc |-> "idle", remaining |-> 0]

Slots == 1..MaxInFlight

\* A request arrives: the identity is read, the admission check made, and
\* the request is either answered 429 or handed to the handler.
WrapAdmit(s, headers, config) ==
    /\ wreq[s].pc = "idle"
    /\ \A s2 \in Slots : s2 < s => wreq[s2].pc # "idle"
    /\ calls < MaxWrapCalls
    /\ LET ip == getClientIP(headers)
           r == checkRateLimit(rateLimitStore, otherKeys, ip, config, now).result
       IN  /\ CallCheckRateLimit(ip, config)
           /\ wreq' = [wreq EXCEPT ![s] =
                 IF ~r.allowed
                 THEN IdleRequest
                 ELSE [pc |-> "handler", remaining |-> r.remaining]]
    /\ UNCHANGED <<health, extraction, chunker, emb, now, ticks, index, reqs>>

\* The handler's promise resolves: the response gets X-RateLimit-Remaining
\* from the remaining the admission check returned.
WrapRespond(s) ==
    /\ wreq[s].pc = "handler"
    /\ wreq' = [wreq EXCEPT ![s] = IdleRequest]
    /\ UNCHANGED <<health, extraction, chunker, emb, now, ticks, rateLimitStore, otherKeys, calls, last, win, refStore,
                   index, reqs>>

-----------------------------------------------------------------------------
(* lib/pinecone.ts and the index it returns *)

DefaultNamespace == ""

\* An index with no namespace given for every namespace.
getIndexShared(namespace) == DefaultNamespace

\* getIndex(namespace): the partition the returned index operates on.
getIndex(namespace) == IF namespace # "" THEN namespace ELSE DefaultNamespace

Namespaces == IPs \cup {DefaultNamespace}

EmptyIndex == [ns \in Namespaces |-> {}]

\* The embedding of a text: a vector that the model tells apart from every
\* other text's.
Embedding(text) == [of |-> text]

\* The characters of a file name.
Chars(name) ==
    CASE name = "a.txt" -> <<"a", ".", "t", "x", "t">>
      [] name = "b.txt" -> <<"b", ".", "t", "x", "t">>
      [] name = "a.pdf" -> <<"a", ".", "p", "d", "f">>
      [] name = "a.PDF" -> <<"a", ".", "P", "D", "F">>
      [] name = "a.pptx" -> <<"a", ".", "p", "p", "t", "x">>
      [] name = "a.docx" -> <<"a", ".", "d", "o", "c", "x">>
      [] OTHER -> <<>>

Digit(d) == SubSeq(<<"0", "1", "2", "3", "4", "5", "6", "7", "8", "9">>, d + 1, d + 1)

RECURSIVE Digits(_)
\* String(n): the decimal digits of a number, after its sign.
Digits(n) ==
    IF n < 0 THEN <<"-">> \o Digits(0 - n)
    ELSE IF n < 10 THEN Digit(n)
    ELSE Digits(n \div 10) \o Digit(n % 10)

VectorIdNoTimestamp(name, ts, k) == Chars(name) \o <<"-">> \o Digits(k)

\* `${file.name}-${uploadTimestamp}-${i + j}`
VectorId(name, ts, k) ==
    Chars(name) \o <<"-">> \o Digits(ts) \o <<"-">> \o Digits(k)

\* A record of the index; `by`, `owner` and `ts` are not stored: they
\* remember the request that wrote the record, the identity it was written
\* for and the timestamp of the upload.
VectorRecord(name, ts, k, chunk, vec, at, r, owner) ==
    [id |-> VectorId(name, ts, k),
     values |-> vec,
     metadata |-> [documentName |-> name, chunk |-> chunk, chunkIndex |-> k,
                   uploadedAt |-> at],
     by |-> r,
     owner |-> owner,
     ts |-> ts]

Ids(records) == {x.id : x \in records}

\* index.upsert({records}): a record replaces the stored record of its id.
Upsert(idx, ns, records) ==
    [idx EXCEPT ![ns] = {x \in @ : x.id \notin Ids(records)} \cup records]

\* index.deleteMany(ids)
DeleteMany(idx, ns, ids) == [idx EXCEPT ![ns] = {x \in @ : x.id \notin ids}]

\* index.describeIndexStats(): the statistics of the whole index.
DescribeIndexStats(idx) ==
    [totalRecordCount |-> SumOver([ns \in Namespaces |-> Cardinality(idx[ns])], Namespaces)]

NoFilter == Null

\* The records of the namespace a query with this filter can match.
Matching(idx, ns, filter) ==
    {x \in idx[ns] : filter = NoFilter \/ x.metadata.documentName = filter}

RECURSIVE SubsetsOfSize(_, _)
SubsetsOfSize(S, k) ==
    IF k = 0 THEN {{}}
    ELSE IF S = {} THEN {}
    ELSE IF k = 1 THEN {{x} : x \in S}
    ELSE LET x == CHOOSE y \in S : TRUE
         IN  {T \cup {x} : T \in SubsetsOfSize(S \ {x}, k - 1)}
             \cup SubsetsOfSize(S \ {x}, k)

\* index.query({topK, filter}): the sets of matches it can return, all the
\* matching records when there are at most topK of them.
QueryResults(idx, ns, filter, topK) ==
    LET M == Matching(idx, ns, filter)
    IN  IF Cardinality(M) <= topK THEN {M}
        ELSE {M \ X : X \in SubsetsOfSize(M, Cardinality(M) - topK)}

RECURSIVE SeqOfSet(_)
SeqOfSet(S) ==
    IF S = {} THEN <<>>
    ELSE LET x == CHOOSE y \in S : TRUE
         IN  <<x>> \o SeqOfSet(S \ {x})

Reverse(q) == [k \in 1..Len(q) |-> q[Len(q) + 1 - k]]

RECURSIVE ByOrdinal(_, _, _)
\* The records of S, whose ordinals are in lo..hi, by ordinal.
ByOrdinal(S, lo, hi) ==
    IF S = {} THEN <<>>
    ELSE IF lo >= hi THEN SeqOfSet(S)
    ELSE LET mid == (lo + hi) \div 2
         IN  ByOrdinal({x \in S : x.metadata.chunkIndex <= mid}, lo, mid)
                 \o ByOrdinal({x \in S : x.metadata.chunkIndex > mid}, mid + 1, hi)

RECURSIVE ByName(_, _)
\* The records of M, document after document.
ByName(M, names) ==
    IF names = <<>> THEN <<>>
    ELSE LET S == {x \in M : x.metadata.documentName = Head(names)}
             top == CHOOSE k \in {x.metadata.chunkIndex : x \in S} :
                       \A x \in S : x.metadata.chunkIndex <= k
         IN  ByOrdinal(S, 0, top) \o ByName(M, Tail(names))

\* The records of M in a sequence.
Ordered(M) == ByName(M, SeqOfSet({x.metadata.documentName : x \in M}))

\* The orders in which the index can rank matches of equal score.
Rankings(M) == {Ordered(M), Reverse(Ordered(M))}

-----------------------------------------------------------------------------
(* api/documents/route.ts and api/ask/route.ts: requests and responses *)

MaxChunkLength == 2000

MaxQuestionLength == 1000

BATCH_SIZE == 5

ListTopK == 100

DeleteTopK == 1000

AskTopK == 5

ReqIds == 1..MaxReqs

\* An uploaded text is one paragraph of words of exactly MaxChunkLength
\* characters, numbered from 1: it is given by its words. The empty text
\* has no word.
Text(n) == [k \in 1..n |-> k]

\* chunkText(text, maxLength) on such a text: a paragraph longer than
\* maxLength is split by words, and no two words of maxLength characters
\* fit one chunk, so the chunks are the words, each a text of its own.
chunkWords(text, maxLength) == [k \in 1..Len(text) |-> <<text[k]>>]

NoFile == [name |-> Null, text |-> Text(0)]

Files ==
    {[name |-> "a.txt", text |-> Text(n)] : n \in {0, 1, MaxChunks}}
        \cup {[name |-> "b.txt", text |-> Text(1)]}

DocumentNames == {"a.txt", "b.txt"}

\* The question of a request body: whether the body has one, what it says
\* (as a text, like the chunks), its length in characters, and how many of
\* these are whitespace around it.
Question(text, length, padding) ==
    [given |-> TRUE, text |-> text, length |-> length, padding |-> padding]

NoQuestion == [given |-> FALSE, text |-> Text(0), length |-> 0, padding |-> 0]

\* The questions asked: none, the empty and a blank string, the first word of
\* the uploaded texts, and questions of 1000 and 1001 characters between
\* blanks or not.
Questions ==
    {NoQuestion, Question(Text(0), 0, 0), Question(Text(0), 1, 1),
     Question(Text(1), 1, 0), Question(Text(1), MaxQuestionLength + 2, 2),
     Question(Text(1), MaxQuestionLength + 1, 0)}

NoResponse ==
    [status |-> 0, error |-> Null, chunksCount |-> 0, documents |-> <<>>,
     totalVectors |-> 0, deletedChunks |-> 0, sources |-> <<>>, retryAfter |-> 0,
     used |-> {}, removed |-> {}, ownCount |-> 0, matches |-> <<>>]

Error(status, message) == [NoResponse EXCEPT !.status = status, !.error = message]

NoReq ==
    [kind |-> "none", pc |-> "idle", ip |-> Null, name |-> Null, text |-> <<>>,
     question |-> NoQuestion, chunks |-> <<>>, i |-> 0, vectors |-> <<>>, ts |-> 0,
     stats |-> 0, ownCount |-> 0, ids |-> {}, matches |-> <<>>,
     embedFailed |-> FALSE, batches |-> 0, alone |-> FALSE,
     external |-> 0, failed |-> FALSE, before |-> {},
     response |-> NoResponse]

InFlight(q) == reqs[q].pc \notin {"idle", "done"}

\* The request once answered: its locals are gone. What is kept besides the
\* response is the record of what happened: whether an embedding failed,
\* after how many embedded batches, whether the request ran alone, how many
\* calls it made to the providers (external) and whether one of them failed.
Answered(q, resp) ==
    [NoReq EXCEPT !.kind = q.kind, !.pc = "done", !.ip = q.ip, !.name = q.name,
                  !.ts = q.ts, !.embedFailed = q.embedFailed, !.batches = q.batches,
                  !.alone = q.alone, !.external = q.external, !.failed = q.failed,
                  !.response = resp]

\* Request r arrives with these headers: the handler reads the identity and
\* makes its admission check; a denied request is answered 429 before
\* anything of it is read, an admitted one goes on as `started` (with its
\* identity) to its first await.
Arrives(r, kind, headers, config, started) ==
    /\ reqs[r].pc = "idle"
    /\ r > 1 => reqs[r - 1].pc # "idle"
    /\ LET ip == getClientIP(headers)
           c == checkRateLimit(rateLimitStore, otherKeys, ip, config, now)
           alone == \A q \in ReqIds : ~InFlight(q)
           mine == [started EXCEPT !.kind = kind, !.ip = ip, !.alone = alone]
           denied == [NoReq EXCEPT !.kind = kind, !.ip = ip, !.alone = alone]
       IN  /\ rateLimitStore' = c.store
           /\ otherKeys' = c.other
           /\ reqs' = [q \in ReqIds |->
                 IF q = r
                 THEN IF c.result.allowed
                      THEN mine
                      ELSE Answered(denied,
                              [NoResponse EXCEPT
                                 !.status = rateLimitResponse(c.result.resetIn).status,
                                 !.error = "Too many requests. Please try again later.",
                                 !.retryAfter = rateLimitResponse(c.result.resetIn).retryAfter])
                 ELSE IF InFlight(q) THEN [reqs[q] EXCEPT !.alone = FALSE]
                 ELSE reqs[q]]
    /\ UNCHANGED <<health, extraction, chunker, emb, now, ticks, calls, wreq, last, win, refStore, index>>

\* A segment of request r that touches neither the index nor the limiter.
Continues(r, next) ==
    /\ reqs' = [reqs EXCEPT ![r] = next]
    /\ UNCHANGED <<health, extraction, chunker, emb, now, ticks, rateLimitStore, otherKeys, calls, wreq, last, win,
                   refStore, index>>

Responds(r, resp) == Continues(r, Answered(reqs[r], resp))

\* A catch block that answers as if nothing had failed.
FailsSilently(r, resp) ==
    Continues(r, Answered([reqs[r] EXCEPT !.failed = TRUE],
                          [NoResponse EXCEPT !.status = 200]))

\* The catch block of a handler, after a call to a provider has failed.
Fails(r, resp) == Continues(r, Answered([reqs[r] EXCEPT !.failed = TRUE], resp))

-----------------------------------------------------------------------------
(* POST /api/documents *)

PostArrives(r, headers, file) ==
    Arrives(r, "upload", headers, uploadRateLimit,
            [NoReq EXCEPT !.pc = "formData", !.name = file.name, !.text = file.text])

\* formData and extractTextFromFile have resolved: validation, chunking, and
\* the first batch of embeddings is requested.
PostParsed(r) ==
    /\ reqs[r].kind = "upload" /\ reqs[r].pc = "formData"
    /\ IF reqs[r].name = Null
       THEN Responds(r, Error(400, "No file provided"))
       ELSE IF Len(reqs[r].text) = 0
       THEN Responds(r, Error(400, "File is empty"))
       ELSE Continues(r, [reqs[r] EXCEPT
                !.pc = "embed",
                !.external = @ + 1,
                !.chunks = chunkWords(reqs[r].text, MaxChunkLength),
                !.text = <<>>,
                !.ts = now,
                !.i = 0,
                !.vectors = <<>>])

\* Records whose ordinals start again at 0 in each batch.
BatchRecordsOrdinalInBatch(q, r, t) ==
    LET n == Min(BATCH_SIZE, Len(q.chunks) - q.i)
    IN  [j \in 1..n |->
            VectorRecord(q.name, q.ts, j - 1, q.chunks[q.i + j],
                         Embedding(q.chunks[q.i + j]), t, r, q.ip)]

\* The records built from the batch that starts at chunk i (from 0).
BatchRecords(q, r, t) ==
    LET n == Min(BATCH_SIZE, Len(q.chunks) - q.i)
    IN  [j \in 1..n |->
            VectorRecord(q.name, q.ts, q.i + j - 1, q.chunks[q.i + j],
                         Embedding(q.chunks[q.i + j]), t, r, q.ip)]

\* What the handler does when a batch of embeddings fails: the catch block
\* answers 500.
AfterBatchFailure(q) ==
    Answered([q EXCEPT !.embedFailed = TRUE, !.failed = TRUE],
             Error(500, "NVIDIA API error"))

\* A handler that would write each batch as soon as it is embedded.
PostEmbeddedWritesEachBatch(r, ok) ==
    /\ reqs[r].kind = "upload" /\ reqs[r].pc = "embed"
    /\ LET q == reqs[r]
           i2 == q.i + BATCH_SIZE
       IN  /\ reqs' = [reqs EXCEPT ![r] =
                 IF ~ok THEN AfterBatchFailure(q)
                 ELSE [q EXCEPT !.vectors = @ \o BatchRecords(q, r, now),
                                !.i = i2,
                                !.batches = @ + 1,
                                !.external = @ + 1,
                                !.pc = IF i2 < Len(q.chunks) THEN "embed" ELSE "upsert"]]
           /\ index' = IF ok
                       THEN Upsert(index, getIndex(q.ip), {BatchRecords(q, r, now)[j] : j \in DOMAIN BatchRecords(q, r, now)})
                       ELSE index
    /\ UNCHANGED <<health, extraction, chunker, emb, now, ticks, rateLimitStore, otherKeys, calls, wreq, last, win, refStore>>

\* getEmbeddingsBatch has resolved for the current batch.
PostEmbedded(r, ok) ==
    /\ reqs[r].kind = "upload" /\ reqs[r].pc = "embed"
    /\ IF ~ok
       THEN Continues(r, AfterBatchFailure(reqs[r]))
       ELSE LET q == reqs[r]
                i2 == q.i + BATCH_SIZE
            IN  Continues(r, [q EXCEPT
                    !.vectors = @ \o BatchRecords(q, r, now),
                    !.i = i2,
                    !.batches = @ + 1,
                    !.external = @ + 1,
                    !.pc = IF i2 < Len(q.chunks) THEN "embed" ELSE "upsert"])

Range(f) == {f[k] : k \in DOMAIN f}

\* index.upsert has resolved.
PostUpserted(r, ok) ==
    /\ reqs[r].kind = "upload" /\ reqs[r].pc = "upsert"
    /\ LET q == reqs[r]
       IN  /\ index' = IF ok THEN Upsert(index, getIndex(q.ip), Range(q.vectors))
                       ELSE index
           /\ reqs' = [reqs EXCEPT ![r] =
                 IF ok
                 THEN Answered(q, [NoResponse EXCEPT !.status = 200,
                                                     !.chunksCount = Len(q.chunks)])
                 ELSE Answered([q EXCEPT !.failed = TRUE], Error(500, "Upload failed"))]
    /\ UNCHANGED <<health, extraction, chunker, emb, now, ticks, rateLimitStore, otherKeys, calls, wreq, last, win, refStore>>

-----------------------------------------------------------------------------
(* GET /api/documents *)

GetArrives(r, headers) ==
    Arrives(r, "list", headers, defaultConfig,
            [NoReq EXCEPT !.pc = "stats", !.external = 1])

\* index.describeIndexStats has resolved.
GetStats(r, ok) ==
    /\ reqs[r].kind = "list" /\ reqs[r].pc = "stats"
    /\ IF ~ok
       THEN Fails(r, Error(500, "Failed to list documents"))
       ELSE Continues(r, [reqs[r] EXCEPT
                !.pc = "query",
                !.external = @ + 1,
                !.stats = DescribeIndexStats(index).totalRecordCount,
                !.ownCount = Cardinality(index[getIndex(reqs[r].ip)])])

\* The body of the loop over the matches: the first match of a name adds
\* its summary, a later one counts.
AddMatch(documents, match) ==
    LET name == match.metadata.documentName
        seen == {k \in 1..Len(documents) : documents[k].name = name}
    IN  IF seen = {}
        THEN Append(documents, [name |-> name,
                                uploadedAt |-> match.metadata.uploadedAt,
                                chunks |-> 1])
        ELSE [k \in 1..Len(documents) |->
                 IF k \in seen
                 THEN [documents[k] EXCEPT !.chunks = @ + 1]
                 ELSE documents[k]]

RECURSIVE AggregateRange(_, _, _, _)
\* The loop over the matches lo..hi, in their order: the first half of them,
\* then the second half from what the first half has made.
AggregateRange(matches, lo, hi, documents) ==
    IF lo > hi THEN documents
    ELSE IF lo = hi THEN AddMatch(documents, matches[lo])
    ELSE LET half == AggregateRange(matches, lo, (lo + hi) \div 2, documents)
         IN  IF Len(half) > 0
             THEN AggregateRange(matches, (lo + hi) \div 2 + 1, hi, half)
             ELSE half

\* The loop over the matches: one summary per document name, in the order
\* the names are first seen.
Aggregate(matches, documents) == AggregateRange(matches, 1, Len(matches), documents)

\* A list with one summary per match.
SummariesPerMatch(matches) ==
    [k \in 1..Len(matches) |->
        [name |-> matches[k].metadata.documentName,
         uploadedAt |-> matches[k].metadata.uploadedAt,
         chunks |-> 1]]

\* Array.from(documents.values()) after the loop over the matches.
Summaries(matches) == Aggregate(matches, <<>>)

\* index.query has resolved.
GetQueried(r, ok) ==
    /\ reqs[r].kind = "list" /\ reqs[r].pc = "query"
    /\ IF ~ok
       THEN Fails(r, Error(500, "Failed to list documents"))
       ELSE \E M \in QueryResults(index, getIndex(reqs[r].ip), NoFilter, ListTopK) :
            \E matches \in Rankings(M) :
               Responds(r, [NoResponse EXCEPT
                    !.status = 200,
                    !.documents = Summaries(matches),
                    !.totalVectors = reqs[r].stats,
                    !.used = M,
                    !.matches = matches,
                    !.ownCount = reqs[r].ownCount])

-----------------------------------------------------------------------------
(* DELETE /api/documents *)

DeleteArrives(r, headers, documentName) ==
    Arrives(r, "delete", headers, defaultConfig,
            [NoReq EXCEPT !.pc = "json", !.name = documentName])

\* request.json has resolved: validation, and the query is sent.
DeleteParsed(r) ==
    /\ reqs[r].kind = "delete" /\ reqs[r].pc = "json"
    /\ IF reqs[r].name = Null
       THEN Responds(r, Error(400, "Document name is required"))
       ELSE Continues(r, [reqs[r] EXCEPT !.pc = "query", !.external = @ + 1])

\* index.query has resolved. before is not in the code: it keeps the records
\* the namespace held when the query was answered.
DeleteQueried(r, ok) ==
    /\ reqs[r].kind = "delete" /\ reqs[r].pc = "query"
    /\ IF ~ok
       THEN Fails(r, Error(500, "Failed to delete document"))
       ELSE \E M \in QueryResults(index, getIndex(reqs[r].ip), reqs[r].name, DeleteTopK) :
               IF M = {}
               THEN Responds(r, Error(404, "Document not found"))
               ELSE Continues(r, [reqs[r] EXCEPT !.pc = "deleteMany", !.ids = Ids(M),
                                                 !.external = @ + 1,
                                                 !.before = index[getIndex(reqs[r].ip)]])

\* index.deleteMany has resolved.
DeleteDone(r, ok) ==
    /\ reqs[r].kind = "delete" /\ reqs[r].pc = "deleteMany"
    /\ LET q == reqs[r]
           ns == getIndex(q.ip)
       IN  /\ index' = IF ok THEN DeleteMany(index, ns, q.ids) ELSE index
           /\ reqs' = [reqs EXCEPT ![r] =
                 IF ok
                 THEN Answered(q, [NoResponse EXCEPT
                          !.status = 200,
                          !.deletedChunks = Cardinality(q.ids),
                          !.removed = index[ns] \ DeleteMany(index, ns, q.ids)[ns]])
                 ELSE Answered([q EXCEPT !.failed = TRUE],
                               Error(500, "Failed to delete document"))]
    /\ UNCHANGED <<health, extraction, chunker, emb, now, ticks, rateLimitStore, otherKeys, calls, wreq, last, win, refStore>>

-----------------------------------------------------------------------------
(* POST /api/ask *)

AskArrives(r, headers, question) ==
    Arrives(r, "ask", headers, askRateLimit,
            [NoReq EXCEPT !.pc = "json", !.question = question])

\* question.trim()
TrimQuestion(question) ==
    [question EXCEPT !.length = @ - question.padding, !.padding = 0]

\* A validation that tests the question as it came.
QuestionErrorUntrimmed(question) ==
    IF ~question.given \/ question.length = 0
    THEN "Question is required"
    ELSE IF question.length > MaxQuestionLength
    THEN "Question is too long (max 1000 characters)"
    ELSE Null

\* The validation of the question: the error it is answered with, if any.
QuestionError(question) ==
    IF ~question.given \/ question.length = 0
    THEN "Question is required"
    ELSE IF TrimQuestion(question).length = 0
    THEN "Question cannot be empty"
    ELSE IF TrimQuestion(question).length > MaxQuestionLength
    THEN "Question is too long (max 1000 characters)"
    ELSE Null

\* request.json has resolved: validation, and the embedding is requested.
AskParsed(r) ==
    /\ reqs[r].kind = "ask" /\ reqs[r].pc = "json"
    /\ IF QuestionError(reqs[r].question) # Null
       THEN Responds(r, Error(400, QuestionError(reqs[r].question)))
       ELSE Continues(r, [reqs[r] EXCEPT !.pc = "embed", !.external = @ + 1])

\* getEmbedding has resolved: the index is queried.
AskEmbedded(r, ok) ==
    /\ reqs[r].kind = "ask" /\ reqs[r].pc = "embed"
    /\ IF ~ok
       THEN Fails(r, Error(500, "NVIDIA API error"))
       ELSE Continues(r, [reqs[r] EXCEPT !.pc = "query", !.external = @ + 1])

\* The score of a record for a query vector, in hundredths.
Score(vec, x) == IF x.values = vec THEN 100 ELSE 0

\* index.query({vector, topK}): the best matches first, records of equal
\* score in either order, at most topK of them.
NearestRankings(idx, ns, vec, topK) ==
    LET best == {x \in idx[ns] : Score(vec, x) = 100}
        rest == idx[ns] \ best
        all == {Ordered(best) \o Ordered(rest),
                Reverse(Ordered(best)) \o Reverse(Ordered(rest))}
    IN  {SubSeq(q, 1, Min(topK, Len(q))) : q \in all}

\* index.query has resolved.
AskQueried(r, ok) ==
    /\ reqs[r].kind = "ask" /\ reqs[r].pc = "query"
    /\ IF ~ok
       THEN Fails(r, Error(500, "Failed to process question"))
       ELSE \E matches \in NearestRankings(index, getIndex(reqs[r].ip),
                                           Embedding(TrimQuestion(reqs[r].question).text),
                                           AskTopK) :
               IF matches = <<>>
               THEN Responds(r, [NoResponse EXCEPT !.status = 200])
               ELSE Continues(r, [reqs[r] EXCEPT !.pc = "generate", !.matches = matches,
                                                 !.external = @ + 1])

\* Sources listed from the last match to the first.
SourcesReversed(matches, trimmedQuestion) ==
    [k \in 1..Len(matches) |->
        LET match == matches[Len(matches) + 1 - k]
        IN  [documentName |-> match.metadata.documentName,
             chunk |-> match.metadata.chunk,
             relevanceScore |-> Score(Embedding(trimmedQuestion.text), match)]]

\* The sources of the response, made from the matches.
Sources(matches, trimmedQuestion) ==
    [k \in 1..Len(matches) |->
        [documentName |-> matches[k].metadata.documentName,
         chunk |-> matches[k].metadata.chunk,
         relevanceScore |-> Score(Embedding(trimmedQuestion.text), matches[k])]]

\* generateAnswer has resolved.
AskGenerated(r, ok) ==
    /\ reqs[r].kind = "ask" /\ reqs[r].pc = "generate"
    /\ IF ~ok
       THEN Fails(r, Error(500, "Failed to generate answer"))
       ELSE LET q == reqs[r]
            IN  Responds(r, [NoResponse EXCEPT
                    !.status = 200,
                    !.sources = Sources(q.matches, TrimQuestion(q.question)),
                    !.used = Range(q.matches),
                    !.matches = q.matches])

-----------------------------------------------------------------------------
(* chunkText of api/documents/route.ts, on strings *)

\* A string is the sequence of its characters.
Whitespace == {" ", "\n", "\r"}

Letters == {"a", "b"}

RECURSIVE TrimStart(_)
TrimStart(s) ==
    IF s # <<>> /\ Head(s) \in Whitespace THEN TrimStart(Tail(s)) ELSE s

RECURSIVE TrimEnd(_)
TrimEnd(s) ==
    IF s # <<>> /\ s[Len(s)] \in Whitespace THEN TrimEnd(SubSeq(s, 1, Len(s) - 1)) ELSE s

\* String.trim
TrimString(s) == TrimEnd(TrimStart(s))

\* String.slice(from, to), positions from 0.
Slice(s, from, to) == SubSeq(s, from + 1, Min(to, Len(s)))

RECURSIVE RunLength(_, _, _)
\* The number of consecutive characters of sep in s from position i on.
RunLength(s, i, sep) ==
    IF i <= Len(s) /\ s[i] \in sep THEN 1 + RunLength(s, i + 1, sep) ELSE 0

RECURSIVE SplitFrom(_, _, _, _, _, _)
SplitFrom(s, i, cur, acc, sep, minRun) ==
    IF i > Len(s) THEN Append(acc, cur)
    ELSE LET run == RunLength(s, i, sep)
         IN  IF run >= minRun
             THEN SplitFrom(s, i + run, <<>>, Append(acc, cur), sep, minRun)
             ELSE IF run > 0
             THEN SplitFrom(s, i + run, cur \o SubSeq(s, i, i + run - 1), acc, sep, minRun)
             ELSE SplitFrom(s, i + 1, Append(cur, s[i]), acc, sep, minRun)

\* String.split on the runs of at least minRun characters of sep.
Split(s, sep, minRun) == SplitFrom(s, 1, <<>>, <<>>, sep, minRun)

\* str.split(/\s+/)
SplitWords(str) == Split(str, Whitespace, 1)

\* text.split(/\n\n+/)
SplitParagraphs(text) == Split(text, {"\n"}, 2)

PiecesWithoutRemainder(word, max) ==
    [n \in 1..(Len(word) \div max) |-> Slice(word, (n - 1) * max, n * max)]

\* The pieces word.slice(i, i + max), i = 0, max, 2 max, ..
Pieces(word, max) ==
    [n \in 1..((Len(word) + max - 1) \div max) |-> Slice(word, (n - 1) * max, n * max)]

PushIfNever(cond, result, str) == result

PushIf(cond, result, str) == IF cond THEN Append(result, str) ELSE result

RECURSIVE SplitLoop(_, _, _, _, _)
\* The loop of splitByLength from the k-th word on, and its last push.
SplitLoop(words, k, current, result, max) ==
    IF k > Len(words)
    THEN PushIf(TrimString(current) # <<>>, result, TrimString(current))
    ELSE LET word == words[k]
         IN  IF Len(word) > max
             THEN SplitLoop(words, k + 1, <<>>,
                            PushIf(current # <<>>, result, TrimString(current))
                                \o Pieces(word, max),
                            max)
             ELSE IF Len(current) + Len(word) + 1 > max
             THEN SplitLoop(words, k + 1, word,
                            PushIf(current # <<>>, result, TrimString(current)), max)
             ELSE SplitLoop(words, k + 1,
                            current \o (IF current # <<>> THEN <<" ">> ELSE <<>>) \o word,
                            result, max)

splitByLength(str, max) == SplitLoop(SplitWords(str), 1, <<>>, <<>>, max)

RECURSIVE ParagraphLoop(_, _, _, _, _)
\* The loop of chunkText from the k-th paragraph on, and its last push.
ParagraphLoop(paragraphs, k, currentChunk, chunks, maxLength) ==
    IF k > Len(paragraphs)
    THEN PushIf(TrimString(currentChunk) # <<>>, chunks, TrimString(currentChunk))
    ELSE LET para == paragraphs[k]
         IN  IF Len(para) > maxLength
             THEN ParagraphLoop(paragraphs, k + 1, <<>>,
                      PushIf(currentChunk # <<>>, chunks, TrimString(currentChunk))
                          \o splitByLength(para, maxLength),
                      maxLength)
             ELSE IF Len(currentChunk) + Len(para) > maxLength /\ currentChunk # <<>>
             THEN ParagraphLoop(paragraphs, k + 1, para,
                      Append(chunks, TrimString(currentChunk)), maxLength)
             ELSE ParagraphLoop(paragraphs, k + 1,
                      currentChunk \o (IF currentChunk # <<>> THEN <<"\n", "\n">> ELSE <<>>)
                                   \o para,
                      chunks, maxLength)

\* A chunker that never packs two paragraphs into one chunk.
chunkTextOneParagraphPerChunk(text, maxLength) ==
    LET paragraphs == SplitParagraphs(text)
    IN  [k \in 1..Len(paragraphs) |-> Slice(TrimString(paragraphs[k]), 0, maxLength)]

chunkText(text, maxLength) ==
    LET chunks == ParagraphLoop(SplitParagraphs(text), 1, <<>>, <<>>, maxLength)
    IN  IF Len(chunks) > 0 THEN chunks
        ELSE <<Slice(TrimString(text), 0, maxLength)>>

\* The strings of at most n characters.
Strings(chars, n) == UNION {[1..k -> chars] : k \in 0..n}

\* Three paragraphs of letters separated by blank lines.
ThreeParagraphs(p1, p2, p3) == p1 \o <<"\n", "\n">> \o p2 \o <<"\n", "\n">> \o p3

ShortParagraphs == Strings(Letters, MaxParagraphLen) \ {<<>>}

\* The texts chunked: every short string, and the documents of three short
\* paragraphs.
ChunkerTexts ==
    Strings(Letters \cup Whitespace, MaxTextLen)
        \cup {ThreeParagraphs(p1, p2, p3) : p1, p2, p3 \in ShortParagraphs}

NoChunker == [pc |-> "idle", text |-> <<>>, maxLength |-> 1, chunks |-> <<>>]

ChunkerUnchanged ==
    UNCHANGED <<now, ticks, rateLimitStore, otherKeys, calls, wreq, last, win,
                refStore, index, reqs, emb, extraction, health>>

\* chunkText is called on the text.
CallChunkText ==
    /\ chunker.pc = "idle"
    /\ chunker' = [chunker EXCEPT !.pc = "done",
                                  !.chunks = chunkText(chunker.text, chunker.maxLength)]
    /\ ChunkerUnchanged

-----------------------------------------------------------------------------
(* extractTextFromFile of api/documents/route.ts, and what POST does with it *)

\* String.toLowerCase, on the characters of the file names.
ToLowerCase(c) ==
    CASE c = "P" -> "p"
      [] c = "D" -> "d"
      [] c = "F" -> "f"
      [] OTHER -> c

LowerCase(s) == [k \in 1..Len(s) |-> ToLowerCase(s[k])]

\* String.endsWith
EndsWith(s, suffix) ==
    /\ Len(s) >= Len(suffix)
    /\ SubSeq(s, Len(s) - Len(suffix) + 1, Len(s)) = suffix

RECURSIVE ReplaceCRLF(_)
\* replace(/\r\n/g, '\n')
ReplaceCRLF(s) ==
    IF s = <<>> THEN <<>>
    ELSE IF Len(s) >= 2 /\ s[1] = "\r" /\ s[2] = "\n"
    THEN <<"\n">> \o ReplaceCRLF(SubSeq(s, 3, Len(s)))
    ELSE <<Head(s)>> \o ReplaceCRLF(Tail(s))

RECURSIVE CollapseFrom(_, _)
CollapseFrom(s, i) ==
    IF i > Len(s) THEN <<>>
    ELSE LET run == RunLength(s, i, {"\n"})
         IN  IF run >= 3 THEN <<"\n", "\n">> \o CollapseFrom(s, i + run)
             ELSE IF run > 0 THEN SubSeq(s, i, i + run - 1) \o CollapseFrom(s, i + run)
             ELSE <<s[i]>> \o CollapseFrom(s, i + 1)

\* replace(/\n{3,}/g, '\n\n')
CollapseNewlines(s) == CollapseFrom(s, 1)

\* The clean-up of the text a parser has extracted.
CleanedText(raw) == TrimString(CollapseNewlines(ReplaceCRLF(raw)))

Returned(text) == [ok |-> TRUE, text |-> text, error |-> <<>>]

Thrown(prefix, message) == [ok |-> FALSE, text |-> <<>>, error |-> <<prefix, message>>]

\* One branch of extractTextFromFile: the parser's text is cleaned and
\* returned, and whatever is thrown is thrown again under the prefix.
Parsed(parses, raw, prefix, emptyMessage) ==
    IF ~parses THEN Thrown(prefix, "Unknown error")
    ELSE IF CleanedText(raw) = <<>> THEN Thrown(prefix, emptyMessage)
    ELSE Returned(CleanedText(raw))

\* extractTextFromFile(file): raw is the text the parser of the file's type
\* reads from the file (file.text() for the other types), parses is whether
\* that parser returns.
extractTextFromFile(name, parses, raw) ==
    LET fileName == LowerCase(Chars(name))
    IN  IF EndsWith(fileName, <<".", "p", "d", "f">>)
        THEN Parsed(parses, raw, "Failed to parse PDF: ",
                    "PDF appears to be empty or contains only images")
        ELSE IF EndsWith(fileName, <<".", "p", "p", "t", "x">>)
        THEN Parsed(parses, raw, "Failed to parse PowerPoint: ",
                    "PowerPoint appears to be empty or contains only images")
        ELSE IF EndsWith(fileName, <<".", "d", "o", "c", "x">>)
        THEN Parsed(parses, raw, "Failed to parse Word document: ",
                    "Word document appears to be empty")
        ELSE Returned(raw)

\* The names of the files extracted.
FileNames == {"a.txt", "a.pdf", "a.PDF", "a.pptx", "a.docx"}

\* The characters of the files' texts.
RawChars == {"a", " ", "\n", "\r"}

RawTexts == Strings(RawChars, MaxTextLen)

\* An upload up to its call of chunkText: status and error are the response
\* when there is one, and text is the text handed to chunkText when chunked.
NoExtraction ==
    [pc |-> "idle", name |-> "a.txt", parses |-> TRUE, raw |-> <<>>,
     status |-> 0, error |-> <<>>, chunked |-> FALSE, text |-> <<>>]

ExtractionUnchanged ==
    UNCHANGED <<now, ticks, rateLimitStore, otherKeys, calls, wreq, last, win,
                refStore, index, reqs, emb, chunker, health>>

\* POST from the extraction of the text to the call of chunkText.
PostExtracts ==
    /\ extraction.pc = "idle"
    /\ LET result == extractTextFromFile(extraction.name, extraction.parses,
                                         extraction.raw)
       IN  extraction' =
               IF ~result.ok
               THEN [extraction EXCEPT !.pc = "done", !.status = 400,
                                       !.error = result.error]
               ELSE IF TrimString(result.text) = <<>>
               THEN [extraction EXCEPT !.pc = "done", !.status = 400,
                                       !.error = <<"File is empty">>]
               ELSE [extraction EXCEPT !.pc = "done", !.chunked = TRUE,
                                       !.text = result.text]
    /\ ExtractionUnchanged

-----------------------------------------------------------------------------
(* lib/embeddings.ts *)

MAX_RETRIES == 5

INITIAL_BACKOFF_MS == 1000

RECURSIVE Pow2(_)
Pow2(n) == IF n = 0 THEN 1 ELSE 2 * Pow2(n - 1)

\* The statuses the provider answers with.
Statuses == {200, 400, 429, 500}

\* response.ok
IsOk(status) == status >= 200 /\ status <= 299

IsTransientAny(status) == status >= 400

\* The statuses after which getEmbedding tries again.
IsTransient(status) == status = 429 \/ status >= 500

BackoffLinear(attempt) == INITIAL_BACKOFF_MS * (attempt + 1)

BackoffMs(attempt) == INITIAL_BACKOFF_MS * Pow2(attempt)

MoreAttemptsOneMore(attempt) == attempt <= MAX_RETRIES

\* The condition of the loop.
MoreAttempts(attempt) == attempt < MAX_RETRIES

\* The body of the provider's answer to the n-th call of a getEmbedding.
ErrorText(status, n) == [status |-> status, call |-> n]

NoErrorText == ErrorText(0, 0)

NoError == [message |-> Null, text |-> NoErrorText]

ApiError(errorText) == [message |-> "NVIDIA API error: ", text |-> errorText]

NoVector == [of |-> <<>>]

CallEvent == [type |-> "call", ms |-> 0]

DelayEvent(ms) == [type |-> "delay", ms |-> ms]

\* One getEmbedding call. calls, transients, lastStatus and events are not
\* in the code: they count the provider calls and the transient answers,
\* remember the last answer, and list the calls and delays in order.
NoItem ==
    [pc |-> "idle", text |-> <<>>, attempt |-> 0, errorText |-> NoErrorText,
     lastError |-> NoError, result |-> NoVector, error |-> NoError,
     calls |-> 0, transients |-> 0, lastStatus |-> 0, events |-> <<>>]

\* getEmbedding(text) up to its first await.
StartItem(text, apiKey) ==
    IF ~apiKey
    THEN [NoItem EXCEPT !.pc = "rejected", !.text = text,
                        !.error = [message |-> "NVIDIA_API_KEY is not set",
                                   text |-> NoErrorText]]
    ELSE [NoItem EXCEPT !.pc = "fetch", !.text = text, !.calls = 1,
                        !.events = <<CallEvent>>]

\* fetch has resolved with this status: the vector is returned, or the
\* error is thrown, or the backoff delay starts.
AfterFetch(item, status) ==
    IF IsOk(status)
    THEN [item EXCEPT !.pc = "resolved", !.result = Embedding(item.text),
                      !.lastStatus = status]
    ELSE IF IsTransient(status)
    THEN [item EXCEPT !.pc = "sleep",
                      !.errorText = ErrorText(status, item.calls),
                      !.lastStatus = status,
                      !.transients = @ + 1,
                      !.events = Append(@, DelayEvent(BackoffMs(item.attempt)))]
    ELSE [item EXCEPT !.pc = "rejected",
                      !.error = ApiError(ErrorText(status, item.calls)),
                      !.lastStatus = status]

\* A loop without an end.
AfterSleepNoEnd(item) ==
    [item EXCEPT !.pc = "fetch", !.attempt = @ + 1,
                 !.lastError = ApiError(item.errorText),
                 !.errorText = NoErrorText,
                 !.calls = @ + 1, !.events = Append(@, CallEvent)]

\* sleep has resolved: lastError is set and the loop goes on, to the next
\* fetch or to its end.
AfterSleep(item) ==
    LET lastError == ApiError(item.errorText)
    IN  IF MoreAttempts(item.attempt + 1)
        THEN [item EXCEPT !.pc = "fetch", !.attempt = @ + 1, !.lastError = lastError,
                          !.errorText = NoErrorText,
                          !.calls = @ + 1, !.events = Append(@, CallEvent)]
        ELSE [item EXCEPT !.pc = "rejected", !.attempt = @ + 1, !.lastError = lastError,
                          !.errorText = NoErrorText,
                          !.error = lastError]

\* The texts of a batch.
BatchTexts ==
    UNION {[1..n -> {<<1>>, <<2>>}] : n \in 1..MaxBatch}

\* A getEmbeddingsBatch call; order lists the getEmbedding calls in the order
\* they settled.
IdleBatch(apiKey) ==
    [apiKey |-> apiKey, pc |-> "idle", texts |-> <<>>, items |-> <<>>,
     order |-> <<>>, result |-> <<>>, error |-> NoError, earlier |-> <<>>]

ItemSettled(item) == item.pc \in {"resolved", "rejected"}

BatchResultByCompletion(items, order) == [k \in 1..Len(items) |-> items[order[k]].result]

\* What Promise.all resolves to.
BatchResult(items, order) == [k \in 1..Len(items) |-> items[k].result]

\* Promise.all over the getEmbedding calls: it rejects with the first
\* rejection and resolves once every call has resolved.
PromiseAll(b, items, order) ==
    LET rejected == {k \in 1..Len(order) : items[order[k]].pc = "rejected"}
        first == CHOOSE k \in rejected : \A k2 \in rejected : k <= k2
    IN  IF b.pc # "pending" THEN [b EXCEPT !.items = items, !.order = order]
        ELSE IF rejected # {}
        THEN [b EXCEPT !.items = items, !.order = order, !.pc = "rejected",
                       !.error = items[order[first]].error]
        ELSE IF \A i \in 1..Len(items) : items[i].pc = "resolved"
        THEN [b EXCEPT !.items = items, !.order = order, !.pc = "resolved",
                       !.result = BatchResult(items, order)]
        ELSE [b EXCEPT !.items = items, !.order = order]

RECURSIVE SettledIn(_, _)
\* The calls among the first n that have settled, in order.
SettledIn(items, n) ==
    IF n = 0 THEN <<>>
    ELSE IF ItemSettled(items[n]) THEN Append(SettledIn(items, n - 1), n)
    ELSE SettledIn(items, n - 1)

EmbUnchanged ==
    UNCHANGED <<now, ticks, rateLimitStore, otherKeys, calls, wreq, last, win,
                refStore, index, reqs, chunker, extraction, health>>

\* getEmbeddingsBatch(texts): every getEmbedding runs to its first await.
CallGetEmbeddingsBatch(texts) ==
    /\ emb.pc = "idle"
    /\ LET items == [i \in 1..Len(texts) |-> StartItem(texts[i], emb.apiKey)]
       IN  emb' = PromiseAll([emb EXCEPT !.pc = "pending", !.texts = texts],
                             items, SettledIn(items, Len(items)))
    /\ EmbUnchanged

\* The getEmbedding call i goes on to the item `next`.
ItemContinues(i, next) ==
    /\ emb' = PromiseAll(emb, [emb.items EXCEPT ![i] = next],
                         IF ItemSettled(next) THEN Append(emb.order, i) ELSE emb.order)
    /\ EmbUnchanged

\* The fetch of the getEmbedding call i has resolved.
FetchResolves(i, status) ==
    /\ emb.pc # "idle"
    /\ i \in 1..Len(emb.items)
    /\ emb.items[i].pc = "fetch"
    /\ ItemContinues(i, AfterFetch(emb.items[i], status))

\* The sleep of the getEmbedding call i has resolved.
SleepResolves(i) ==
    /\ emb.pc # "idle"
    /\ i \in 1..Len(emb.items)
    /\ emb.items[i].pc = "sleep"
    /\ ItemContinues(i, AfterSleep(emb.items[i]))

-----------------------------------------------------------------------------
(* POST /api/documents with its getEmbedding calls one by one *)

\* The most answers 429 or 5xx the provider gives to one upload.
MaxTransients == 1

\* A batch that takes every chunk left.
BatchOfAll(q) == SubSeq(q.chunks, q.i + 1, Len(q.chunks))

\* chunks.slice(i, i + BATCH_SIZE)
BatchOf(q) == SubSeq(q.chunks, q.i + 1, Min(q.i + BATCH_SIZE, Len(q.chunks)))

\* getEmbeddingsBatch(texts) up to its await: every getEmbedding call runs to
\* its first await. earlier keeps the getEmbedding calls of the batches
\* before this one.
GetEmbeddingsBatch(b, texts) ==
    LET items == [i \in 1..Len(texts) |-> StartItem(texts[i], b.apiKey)]
    IN  PromiseAll([b EXCEPT !.pc = "pending", !.texts = texts, !.result = <<>>,
                             !.earlier = @ \o b.items],
                   items, SettledIn(items, Len(items)))

\* The handler after formData and extractTextFromFile: a response, or the
\* chunks and the start of the loop over the batches.
AfterParse(q, t) ==
    IF q.name = Null THEN Answered(q, Error(400, "No file provided"))
    ELSE IF Len(q.text) = 0 THEN Answered(q, Error(400, "File is empty"))
    ELSE [q EXCEPT !.pc = "embed",
                   !.external = @ + 1,
                   !.chunks = chunkWords(q.text, MaxChunkLength),
                   !.text = <<>>,
                   !.ts = t,
                   !.i = 0,
                   !.vectors = <<>>]

\* The handler after the getEmbeddingsBatch call of its batch has settled:
\* the catch block, or the records of the batch and the next turn of the loop.
AfterBatch(q, r, ok, t) ==
    IF ~ok THEN AfterBatchFailure(q)
    ELSE [q EXCEPT !.vectors = @ \o BatchRecords(q, r, t),
                   !.i = q.i + BATCH_SIZE,
                   !.batches = @ + 1,
                   !.external = @ + 1,
                   !.pc = IF q.i + BATCH_SIZE < Len(q.chunks) THEN "embed" ELSE "upsert"]

\* The handler calls getEmbeddingsBatch on its next batch and awaits it; a
\* call that has rejected before its first await takes it to the catch block.
StartBatch(q, r, b, t) ==
    LET b2 == GetEmbeddingsBatch(b, BatchOf(q))
    IN  [req |-> IF b2.pc = "rejected" THEN AfterBatch(q, r, FALSE, t) ELSE q,
         emb |-> b2]

UploadUnchanged ==
    UNCHANGED <<now, ticks, rateLimitStore, otherKeys, calls, wreq, last, win,
                refStore, index, chunker, extraction, health>>

\* formData and extractTextFromFile have resolved.
UploadParsed(r) ==
    /\ reqs[r].kind = "upload" /\ reqs[r].pc = "formData"
    /\ LET q == AfterParse(reqs[r], now)
           s == StartBatch(q, r, emb, now)
       IN  IF q.pc = "embed"
           THEN reqs' = [reqs EXCEPT ![r] = s.req] /\ emb' = s.emb
           ELSE reqs' = [reqs EXCEPT ![r] = q] /\ emb' = emb
    /\ UploadUnchanged

\* A getEmbedding call of the upload has gone on and the calls are now
\* `items`: when that settles the batch, the handler goes on, to the catch
\* block, to the next batch or to the upsert.
UploadStep(r, items, order) ==
    LET b == PromiseAll(emb, items, order)
        settles == emb.pc = "pending" /\ b.pc # "pending"
        q == IF settles /\ reqs[r].pc = "embed"
             THEN AfterBatch(reqs[r], r, b.pc = "resolved", now)
             ELSE reqs[r]
        s == StartBatch(q, r, b, now)
    IN  /\ IF settles /\ q.pc = "embed"
           THEN reqs' = [reqs EXCEPT ![r] = s.req] /\ emb' = s.emb
           ELSE reqs' = [reqs EXCEPT ![r] = q] /\ emb' = b
        /\ UploadUnchanged

\* The provider calls of the upload answered 429 or 5xx so far.
Transients(b) ==
    SumOver([k \in 1..Len(b.items) |-> b.items[k].transients], 1..Len(b.items))
        + SumOver([k \in 1..Len(b.earlier) |-> b.earlier[k].transients],
                  1..Len(b.earlier))

\* The fetch of the getEmbedding call i of the upload has resolved.
UploadFetchResolves(r, i, status) ==
    /\ reqs[r].kind = "upload"
    /\ emb.pc # "idle"
    /\ i \in 1..Len(emb.items)
    /\ emb.items[i].pc = "fetch"
    /\ IsTransient(status) => Transients(emb) < MaxTransients
    /\ LET next == AfterFetch(emb.items[i], status)
       IN  UploadStep(r, [emb.items EXCEPT ![i] = next],
                      IF ItemSettled(next) THEN Append(emb.order, i) ELSE emb.order)

\* The sleep of the getEmbedding call i of the upload has resolved.
UploadSleepResolves(r, i) ==
    /\ reqs[r].kind = "upload"
    /\ emb.pc # "idle"
    /\ i \in 1..Len(emb.items)
    /\ emb.items[i].pc = "sleep"
    /\ LET next == AfterSleep(emb.items[i])
       IN  UploadStep(r, [emb.items EXCEPT ![i] = next],
                      IF ItemSettled(next) THEN Append(emb.order, i) ELSE emb.order)

-----------------------------------------------------------------------------
(* api/health/route.ts and the health probes of lib/ *)

\* The environment: which of the API keys are set.
Environments == [nvidia : BOOLEAN, pinecone : BOOLEAN, gemini : BOOLEAN]

\* A promise of a boolean: pending, resolved with a value, or rejected.
Pending == [pc |-> "pending", value |-> FALSE]

Resolved(value) == [pc |-> "resolved", value |-> value]

Rejected == [pc |-> "rejected", value |-> FALSE]

\* The calls a probe makes to its provider: not answered yet, answered, failed.
CallStates == {"pending", "ok", "failed"}

\* checkPineconeHealth(): without the key getPinecone throws; listIndexes
\* is the state of its call.
checkPineconeHealth(key, listIndexes) ==
    IF ~key THEN Resolved(FALSE)
    ELSE IF listIndexes = "pending" THEN Pending
    ELSE Resolved(listIndexes = "ok")

\* checkLLMHealth(): without the key getGenAI throws; generateContent is
\* the state of its call.
checkLLMHealth(key, generateContent) ==
    IF ~key THEN Resolved(FALSE)
    ELSE IF generateContent = "pending" THEN Pending
    ELSE Resolved(generateContent = "ok")

\* A probe that lets the error of getEmbedding through.
checkEmbeddingHealthRethrows(item) ==
    IF item.pc = "resolved" THEN Resolved(TRUE)
    ELSE IF item.pc = "rejected" THEN Rejected
    ELSE Pending

\* checkEmbeddingHealth(): item is its getEmbedding call.
checkEmbeddingHealth(item) ==
    IF item.pc = "resolved" THEN Resolved(TRUE)
    ELSE IF item.pc = "rejected" THEN Resolved(FALSE)
    ELSE Pending

\* The text of the probe, 'test'.
ProbeText == <<"t", "e", "s", "t">>

NoBody ==
    [status |-> Null, backend |-> FALSE, database |-> FALSE, embeddings |-> FALSE,
     llm |-> FALSE]

\* A request to the health route; ip keeps the identity it came with.
NoHealth ==
    [pc |-> "idle", ip |-> Null,
     env |-> [nvidia |-> TRUE, pinecone |-> TRUE, gemini |-> TRUE],
     listIndexes |-> "pending", generateContent |-> "pending", item |-> NoItem,
     status |-> 0, retryAfter |-> 0, body |-> NoBody]

\* The handler after a probe has moved: Promise.all over the three probes
\* resolves once all have resolved, and the response is made; a rejection
\* would leave the handler, which has no catch block, and the framework
\* answers 500.
HealthSettles(h) ==
    LET pinecone == checkPineconeHealth(h.env.pinecone, h.listIndexes)
        embeddings == checkEmbeddingHealth(h.item)
        llm == checkLLMHealth(h.env.gemini, h.generateContent)
        all == {pinecone, embeddings, llm}
        allHealthy == pinecone.value /\ embeddings.value /\ llm.value
    IN  IF \E p \in all : p.pc = "rejected"
        THEN [h EXCEPT !.pc = "done", !.status = 500]
        ELSE IF \A p \in all : p.pc = "resolved"
        THEN [h EXCEPT !.pc = "done",
                       !.status = IF allHealthy THEN 200 ELSE 503,
                       !.body = [status |-> IF allHealthy THEN "healthy" ELSE "degraded",
                                 backend |-> TRUE,
                                 database |-> pinecone.value,
                                 embeddings |-> embeddings.value,
                                 llm |-> llm.value]]
        ELSE h

HealthUnchanged ==
    UNCHANGED <<now, ticks, otherKeys, calls, wreq, last, win, refStore, index, reqs,
                emb, chunker, extraction>>

\* GET /api/health arrives: the admission check, and the three probes run to
\* their first await.
HealthArrives(headers) ==
    /\ health.pc = "idle"
    /\ LET c == checkRateLimit(rateLimitStore, otherKeys, getClientIP(headers),
                               healthRateLimit, now)
       IN  /\ rateLimitStore' = c.store
           /\ otherKeys' = c.other
           /\ health' =
                 IF ~c.result.allowed
                 THEN [health EXCEPT
                          !.pc = "done",
                          !.ip = getClientIP(headers),
                          !.status = rateLimitResponse(c.result.resetIn).status,
                          !.retryAfter = rateLimitResponse(c.result.resetIn).retryAfter]
                 ELSE HealthSettles([health EXCEPT
                          !.pc = "probing",
                          !.ip = getClientIP(headers),
                          !.item = StartItem(ProbeText, health.env.nvidia)])
    /\ UNCHANGED <<now, ticks, calls, wreq, last, win, refStore, index, reqs,
                   emb, chunker, extraction>>

\* pc.listIndexes() has settled.
ListIndexesSettles(ok) ==
    /\ health.pc = "probing"
    /\ health.env.pinecone /\ health.listIndexes = "pending"
    /\ health' = HealthSettles([health EXCEPT
                      !.listIndexes = IF ok THEN "ok" ELSE "failed"])
    /\ UNCHANGED rateLimitStore
    /\ HealthUnchanged

\* ai.models.generateContent() has settled.
GenerateContentSettles(ok) ==
    /\ health.pc = "probing"
    /\ health.env.gemini /\ health.generateContent = "pending"
    /\ health' = HealthSettles([health EXCEPT
                      !.generateContent = IF ok THEN "ok" ELSE "failed"])
    /\ UNCHANGED rateLimitStore
    /\ HealthUnchanged

\* The fetch of the probe's getEmbedding has resolved.
HealthFetchResolves(status) ==
    /\ health.pc = "probing"
    /\ health.item.pc = "fetch"
    /\ health' = HealthSettles([health EXCEPT !.item = AfterFetch(@, status)])
    /\ UNCHANGED rateLimitStore
    /\ HealthUnchanged

\* The sleep of the probe's getEmbedding has resolved.
HealthSleepResolves ==
    /\ health.pc = "probing"
    /\ health.item.pc = "sleep"
    /\ health' = HealthSettles([health EXCEPT !.item = AfterSleep(@)])
    /\ UNCHANGED rateLimitStore
    /\ HealthUnchanged

-----------------------------------------------------------------------------
(* Specifications of the library functions and of the health route *)

\* One getEmbeddingsBatch call.
InitEmbed ==
    /\ now = 0
    /\ ticks = 0
    /\ rateLimitStore = [ip \in IPs |-> NoEntry]
    /\ otherKeys = NoOtherKeys
    /\ calls = 0
    /\ wreq = [s \in Slots |-> IdleRequest]
    /\ last = NoCall
    /\ win = [ip \in IPs |-> NoWindow]
    /\ refStore = [k \in IPs \X NamedConfigs |-> NoEntry]
    /\ index = EmptyIndex
    /\ reqs = [r \in ReqIds |-> NoReq]
    /\ emb \in {IdleBatch(k) : k \in BOOLEAN}
    /\ chunker = NoChunker
    /\ extraction = NoExtraction
    /\ health = NoHealth

NextEmbed ==
    \/ \E texts \in BatchTexts : CallGetEmbeddingsBatch(texts)
    \/ \E i \in 1..MaxBatch, status \in Statuses : FetchResolves(i, status)
    \/ \E i \in 1..MaxBatch : SleepResolves(i)

SpecEmbed == InitEmbed /\ [][NextEmbed]_vars

\* chunkText on one text.
InitChunker ==
    /\ now = 0
    /\ ticks = 0
    /\ rateLimitStore = [ip \in IPs |-> NoEntry]
    /\ otherKeys = NoOtherKeys
    /\ calls = 0
    /\ wreq = [s \in Slots |-> IdleRequest]
    /\ last = NoCall
    /\ win = [ip \in IPs |-> NoWindow]
    /\ refStore = [k \in IPs \X NamedConfigs |-> NoEntry]
    /\ index = EmptyIndex
    /\ reqs = [r \in ReqIds |-> NoReq]
    /\ emb = IdleBatch(TRUE)
    /\ \E text \in ChunkerTexts, maxLength \in 1..MaxMaxLength :
          chunker = [NoChunker EXCEPT !.text = text, !.maxLength = maxLength]
    /\ extraction = NoExtraction
    /\ health = NoHealth

NextChunker == CallChunkText

SpecChunker == InitChunker /\ [][NextChunker]_vars

\* The extraction of the text of one upload.
InitExtract ==
    /\ now = 0
    /\ ticks = 0
    /\ rateLimitStore = [ip \in IPs |-> NoEntry]
    /\ otherKeys = NoOtherKeys
    /\ calls = 0
    /\ wreq = [s \in Slots |-> IdleRequest]
    /\ last = NoCall
    /\ win = [ip \in IPs |-> NoWindow]
    /\ refStore = [k \in IPs \X NamedConfigs |-> NoEntry]
    /\ index = EmptyIndex
    /\ reqs = [r \in ReqIds |-> NoReq]
    /\ emb = IdleBatch(TRUE)
    /\ chunker = NoChunker
    /\ \E name \in FileNames, parses \in BOOLEAN, raw \in RawTexts :
          extraction = [NoExtraction EXCEPT !.name = name, !.parses = parses,
                                            !.raw = raw]
    /\ health = NoHealth

NextExtract == PostExtracts

SpecExtract == InitExtract /\ [][NextExtract]_vars

\* The windows earlier health requests left in the limiter: none, or full.
EarlierHealthTraffic ==
    {NoEntry, [count |-> healthRateLimit.maxRequests, resetTime |-> windowMs]}

\* One request to the health route.
InitHealth ==
    /\ now = 0
    /\ ticks = 0
    /\ \E e \in EarlierHealthTraffic : rateLimitStore = [ip \in IPs |-> e]
    /\ otherKeys = NoOtherKeys
    /\ calls = 0
    /\ wreq = [s \in Slots |-> IdleRequest]
    /\ last = NoCall
    /\ win = [ip \in IPs |-> NoWindow]
    /\ refStore = [k \in IPs \X NamedConfigs |-> NoEntry]
    /\ index = EmptyIndex
    /\ reqs = [r \in ReqIds |-> NoReq]
    /\ emb = IdleBatch(TRUE)
    /\ chunker = NoChunker
    /\ extraction = NoExtraction
    /\ \E env \in Environments : health = [NoHealth EXCEPT !.env = env]

NextHealth ==
    \/ \E h \in Headers : HealthArrives(h)
    \/ \E ok \in BOOLEAN : ListIndexesSettles(ok)
    \/ \E ok \in BOOLEAN : GenerateContentSettles(ok)
    \/ \E status \in Statuses : HealthFetchResolves(status)
    \/ HealthSleepResolves

SpecHealth == InitHealth /\ [][NextHealth]_vars

-----------------------------------------------------------------------------
(* Specification of the routes *)

\* Records that earlier uploads left in the index.
Stored(name, n, owner) ==
    {VectorRecord(name, 0 - 1, k, <<k + 1>>, Embedding(<<k + 1>>), 0 - 1, 0, owner) : k \in 0..(n - 1)}

SeededIndex ==
    [ns \in Namespaces |->
        IF ns = "10.0.0.1" THEN Stored("a.txt", 2, ns) \cup Stored("b.txt", 1, ns)
        ELSE IF ns = "unknown" THEN Stored("a.txt", 1, ns)
        ELSE {}]

\* Windows that earlier requests left in the limiter.
EarlierTraffic == {NoEntry, [count |-> defaultConfig.maxRequests - 1, resetTime |-> windowMs]}

InitRoutes ==
    /\ now = 0
    /\ ticks = 0
    /\ \E e \in EarlierTraffic : rateLimitStore = [ip \in IPs |-> e]
    /\ otherKeys = NoOtherKeys
    /\ calls = 0
    /\ wreq = [s \in Slots |-> IdleRequest]
    /\ last = NoCall
    /\ win = [ip \in IPs |-> NoWindow]
    /\ refStore = [k \in IPs \X NamedConfigs |-> NoEntry]
    /\ index \in {EmptyIndex, SeededIndex}
    /\ reqs = [r \in ReqIds |-> NoReq]
    /\ emb = IdleBatch(TRUE)
    /\ chunker = NoChunker
    /\ extraction = NoExtraction
    /\ health = NoHealth

NextRoutes ==
    \/ \E r \in ReqIds, h \in Headers, f \in Files \cup {NoFile} : PostArrives(r, h, f)
    \/ \E r \in ReqIds : PostParsed(r)
    \/ \E r \in ReqIds, ok \in BOOLEAN : PostEmbedded(r, ok)
    \/ \E r \in ReqIds, ok \in BOOLEAN : PostUpserted(r, ok)
    \/ \E r \in ReqIds, h \in Headers : GetArrives(r, h)
    \/ \E r \in ReqIds, ok \in BOOLEAN : GetStats(r, ok)
    \/ \E r \in ReqIds, ok \in BOOLEAN : GetQueried(r, ok)
    \/ \E r \in ReqIds, h \in Headers, d \in DocumentNames \cup {Null} : DeleteArrives(r, h, d)
    \/ \E r \in ReqIds : DeleteParsed(r)
    \/ \E r \in ReqIds, ok \in BOOLEAN : DeleteQueried(r, ok)
    \/ \E r \in ReqIds, ok \in BOOLEAN : DeleteDone(r, ok)
    \/ \E r \in ReqIds, h \in Headers, q \in Questions : AskArrives(r, h, q)
    \/ \E r \in ReqIds : AskParsed(r)
    \/ \E r \in ReqIds, ok \in BOOLEAN : AskEmbedded(r, ok)
    \/ \E r \in ReqIds, ok \in BOOLEAN : AskQueried(r, ok)
    \/ \E r \in ReqIds, ok \in BOOLEAN : AskGenerated(r, ok)
    \/ Tick(1)

Spec == InitRoutes /\ [][NextRoutes]_vars

\* An index that holds a document of about DeleteTopK records.
BulkIndex(n) ==
    [ns \in Namespaces |->
        IF ns = "10.0.0.1" THEN Stored("a.txt", n, ns) \cup Stored("b.txt", 1, ns)
        ELSE {}]

InitBulk ==
    /\ now = 0
    /\ ticks = 0
    /\ rateLimitStore = [ip \in IPs |-> NoEntry]
    /\ otherKeys = NoOtherKeys
    /\ calls = 0
    /\ wreq = [s \in Slots |-> IdleRequest]
    /\ last = NoCall
    /\ win = [ip \in IPs |-> NoWindow]
    /\ refStore = [k \in IPs \X NamedConfigs |-> NoEntry]
    /\ \E n \in {DeleteTopK, DeleteTopK + 1} : index = BulkIndex(n)
    /\ reqs = [r \in ReqIds |-> NoReq]
    /\ emb = IdleBatch(TRUE)
    /\ chunker = NoChunker
    /\ extraction = NoExtraction
    /\ health = NoHealth

\* Deletes, one after the other.
NextBulk ==
    \/ \E r \in ReqIds, h \in Headers, d \in DocumentNames \cup {Null} :
          (\A q \in ReqIds : ~InFlight(q)) /\ DeleteArrives(r, h, d)
    \/ \E r \in ReqIds : DeleteParsed(r)
    \/ \E r \in ReqIds, ok \in BOOLEAN : DeleteQueried(r, ok)
    \/ \E r \in ReqIds, ok \in BOOLEAN : DeleteDone(r, ok)

SpecBulk == InitBulk /\ [][NextBulk]_vars

\* An index whose first namespace holds n + 2 records: a document of n
\* records, the record of a later upload under the same name, and another
\* document.
ListIndex(n) ==
    [ns \in Namespaces |->
        IF ns = "10.0.0.1"
        THEN Stored("a.txt", n, ns) \cup Stored("b.txt", 1, ns)
                \cup {VectorRecord("a.txt", 0, 0, <<1>>, Embedding(<<1>>), 0, 0, ns)}
        ELSE {}]

InitList ==
    /\ now = 0
    /\ ticks = 0
    /\ rateLimitStore = [ip \in IPs |-> NoEntry]
    /\ otherKeys = NoOtherKeys
    /\ calls = 0
    /\ wreq = [s \in Slots |-> IdleRequest]
    /\ last = NoCall
    /\ win = [ip \in IPs |-> NoWindow]
    /\ refStore = [k \in IPs \X NamedConfigs |-> NoEntry]
    /\ \E n \in {ListTopK - 2, ListTopK - 1} : index = ListIndex(n)
    /\ reqs = [r \in ReqIds |-> NoReq]
    /\ emb = IdleBatch(TRUE)
    /\ chunker = NoChunker
    /\ extraction = NoExtraction
    /\ health = NoHealth

\* One list request over an index of about ListTopK records.
NextList ==
    \/ \E h \in Headers : GetArrives(1, h)
    \/ \E ok \in BOOLEAN : GetStats(1, ok)
    \/ \E ok \in BOOLEAN : GetQueried(1, ok)

SpecList == InitList /\ [][NextList]_vars

\* The index after an upload of a.txt, of one chunk, made by this identity in
\* the current millisecond, and the limiter's window that upload opened.
InitRace ==
    /\ now = 0
    /\ ticks = 0
    /\ rateLimitStore = [ip \in IPs |->
          IF ip = "10.0.0.1" THEN FreshEntry(now, uploadRateLimit) ELSE NoEntry]
    /\ otherKeys = NoOtherKeys
    /\ calls = 0
    /\ wreq = [s \in Slots |-> IdleRequest]
    /\ last = NoCall
    /\ win = [ip \in IPs |-> NoWindow]
    /\ refStore = [k \in IPs \X NamedConfigs |-> NoEntry]
    /\ index = Upsert(EmptyIndex, "10.0.0.1",
                      {VectorRecord("a.txt", now, 0, <<1>>, Embedding(<<1>>), now, 0,
                                    "10.0.0.1")})
    /\ reqs = [r \in ReqIds |-> NoReq]
    /\ emb = IdleBatch(TRUE)
    /\ chunker = NoChunker
    /\ extraction = NoExtraction
    /\ health = NoHealth

\* Uploads and deletes.
NextRace ==
    \/ \E r \in ReqIds, h \in Headers, f \in Files \cup {NoFile} : PostArrives(r, h, f)
    \/ \E r \in ReqIds : PostParsed(r)
    \/ \E r \in ReqIds, ok \in BOOLEAN : PostEmbedded(r, ok)
    \/ \E r \in ReqIds, ok \in BOOLEAN : PostUpserted(r, ok)
    \/ \E r \in ReqIds, h \in Headers, d \in DocumentNames \cup {Null} : DeleteArrives(r, h, d)
    \/ \E r \in ReqIds : DeleteParsed(r)
    \/ \E r \in ReqIds, ok \in BOOLEAN : DeleteQueried(r, ok)
    \/ \E r \in ReqIds, ok \in BOOLEAN : DeleteDone(r, ok)
    \/ Tick(1)

SpecRace == InitRace /\ [][NextRace]_vars

\* One upload, its getEmbedding calls one by one.
InitUpload ==
    /\ now = 0
    /\ ticks = 0
    /\ \E e \in EarlierTraffic : rateLimitStore = [ip \in IPs |-> e]
    /\ otherKeys = NoOtherKeys
    /\ calls = 0
    /\ wreq = [s \in Slots |-> IdleRequest]
    /\ last = NoCall
    /\ win = [ip \in IPs |-> NoWindow]
    /\ refStore = [k \in IPs \X NamedConfigs |-> NoEntry]
    /\ index = EmptyIndex
    /\ reqs = [r \in ReqIds |-> NoReq]
    /\ emb \in {IdleBatch(k) : k \in BOOLEAN}
    /\ chunker = NoChunker
    /\ extraction = NoExtraction
    /\ health = NoHealth

NextUpload ==
    \/ \E h \in Headers, f \in Files \cup {NoFile} : PostArrives(1, h, f)
    \/ UploadParsed(1)
    \/ \E i \in 1..BATCH_SIZE, status \in Statuses : UploadFetchResolves(1, i, status)
    \/ \E i \in 1..BATCH_SIZE : UploadSleepResolves(1, i)
    \/ \E ok \in BOOLEAN : PostUpserted(1, ok)

SpecUpload == InitUpload /\ [][NextUpload]_vars

\* The windows that requests made a millisecond earlier left in the limiter:
\* none, one request short of the default policy's limit, and at the limit
\* of the health policy.
ServiceTraffic ==
    {NoEntry,
     [count |-> defaultConfig.maxRequests - 1, resetTime |-> windowMs - 1],
     [count |-> healthRateLimit.maxRequests, resetTime |-> windowMs - 1]}

\* One request to the documents and ask routes and one to the health route,
\* side by side.
InitService ==
    /\ now = 0
    /\ ticks = 0
    /\ \E e \in ServiceTraffic : rateLimitStore = [ip \in IPs |-> e]
    /\ otherKeys = NoOtherKeys
    /\ calls = 0
    /\ wreq = [s \in Slots |-> IdleRequest]
    /\ last = NoCall
    /\ win = [ip \in IPs |-> NoWindow]
    /\ refStore = [k \in IPs \X NamedConfigs |-> NoEntry]
    /\ index \in {EmptyIndex, SeededIndex}
    /\ reqs = [r \in ReqIds |-> NoReq]
    /\ emb = IdleBatch(TRUE)
    /\ chunker = NoChunker
    /\ extraction = NoExtraction
    /\ health = NoHealth

\* The request to the documents and ask routes arrives, with one of these
\* headers.
RequestArrives(H) ==
    \/ \E h \in H, f \in Files \cup {NoFile} : PostArrives(1, h, f)
    \/ \E h \in H : GetArrives(1, h)
    \/ \E h \in H, d \in DocumentNames \cup {Null} : DeleteArrives(1, h, d)
    \/ \E h \in H, q \in Questions : AskArrives(1, h, q)

\* A call the request awaits has settled and its handler goes on.
RequestContinues ==
    \/ PostParsed(1)
    \/ \E ok \in BOOLEAN : PostEmbedded(1, ok)
    \/ \E ok \in BOOLEAN : PostUpserted(1, ok)
    \/ \E ok \in BOOLEAN : GetStats(1, ok)
    \/ \E ok \in BOOLEAN : GetQueried(1, ok)
    \/ DeleteParsed(1)
    \/ \E ok \in BOOLEAN : DeleteQueried(1, ok)
    \/ \E ok \in BOOLEAN : DeleteDone(1, ok)
    \/ AskParsed(1)
    \/ \E ok \in BOOLEAN : AskEmbedded(1, ok)
    \/ \E ok \in BOOLEAN : AskQueried(1, ok)
    \/ \E ok \in BOOLEAN : AskGenerated(1, ok)

\* A call the request to the health route awaits has settled.
NextProbe ==
    \/ \E ok \in BOOLEAN : ListIndexesSettles(ok)
    \/ \E ok \in BOOLEAN : GenerateContentSettles(ok)
    \/ \E status \in Statuses : HealthFetchResolves(status)
    \/ HealthSleepResolves

NextService ==
    \/ RequestArrives(Headers)
    \/ RequestContinues
    \/ \E h \in Headers : HealthArrives(h)
    \/ NextProbe

SpecService == InitService /\ [][NextService]_vars

\* A request that carries no address header.
NoAddress == [forwardedFor |-> Null, realIP |-> Null]

\* The two requests from one client over an index that holds documents, where
\* every call that a handler awaits settles in the end.
InitAnswering == InitService /\ index = SeededIndex

NextAnswering ==
    \/ RequestArrives({NoAddress})
    \/ RequestContinues
    \/ HealthArrives(NoAddress)
    \/ NextProbe

FairService ==
    /\ InitAnswering
    /\ [][NextAnswering]_vars
    /\ WF_vars(RequestContinues)
    /\ WF_vars(NextProbe)

\* One request to the documents and ask routes, whose x-forwarded-for may
\* start with a blank element.
InitNamespace ==
    /\ now = 0
    /\ ticks = 0
    /\ rateLimitStore = [ip \in IPs \cup {getClientIP(BlankForwardedFor)} |-> NoEntry]
    /\ otherKeys = NoOtherKeys
    /\ calls = 0
    /\ wreq = [s \in Slots |-> IdleRequest]
    /\ last = NoCall
    /\ win = [ip \in IPs |-> NoWindow]
    /\ refStore = [k \in IPs \X NamedConfigs |-> NoEntry]
    /\ index \in {EmptyIndex, SeededIndex}
    /\ reqs = [r \in ReqIds |-> NoReq]
    /\ emb = IdleBatch(TRUE)
    /\ chunker = NoChunker
    /\ extraction = NoExtraction
    /\ health = NoHealth

NextNamespace ==
    \/ RequestArrives(Headers \cup {BlankForwardedFor})
    \/ RequestContinues

SpecNamespace == InitNamespace /\ [][NextNamespace]_vars

-----------------------------------------------------------------------------
(* Specifications of the rate limiter *)

\* The entries other identities may have left: none, or a table at the
\* clean-up threshold, each entry from one request at time 0.
OtherKeysInit ==
    {NoOtherKeys, [n |-> CleanUpThreshold, resetTime |-> windowMs]}

InitBase ==
    /\ now = 0
    /\ ticks = 0
    /\ rateLimitStore = [ip \in IPs |-> NoEntry]
    /\ calls = 0
    /\ wreq = [s \in Slots |-> IdleRequest]
    /\ last = NoCall
    /\ win = [ip \in IPs |-> NoWindow]
    /\ refStore = [k \in IPs \X NamedConfigs |-> NoEntry]
    /\ index = EmptyIndex
    /\ reqs = [r \in ReqIds |-> NoReq]
    /\ emb = IdleBatch(TRUE)
    /\ chunker = NoChunker
    /\ extraction = NoExtraction
    /\ health = NoHealth

InitRL == InitBase /\ otherKeys \in OtherKeysInit

InitQuiet == InitBase /\ otherKeys = NoOtherKeys

\* checkRateLimit under any policy.
NextRL ==
    \/ \E h \in Headers, c \in TestConfigs : calls < MaxCalls /\ Admission(h, c)
    \/ \E d \in TickSteps : Tick(d)

SpecRL == InitRL /\ [][NextRL]_vars

\* Requests running concurrently under withRateLimit.
NextWrap ==
    \/ \E s \in Slots, h \in Headers, c \in TestConfigs : WrapAdmit(s, h, c)
    \/ \E s \in Slots : WrapRespond(s)
    \/ \E d \in TickSteps : Tick(d)

SpecWrap == InitQuiet /\ [][NextWrap]_vars

\* The admission checks of the route handlers, each with its own policy.
NextPolicies ==
    \/ \E h \in Headers, c \in NamedConfigs : calls < MaxPolicyCalls /\ Admission(h, c)
    \/ \E d \in TickSteps : Tick(d)

SpecPolicies == InitQuiet /\ [][NextPolicies]_vars

-----------------------------------------------------------------------------
(* Claims about the rate limiter *)

\* C1: among the consecutive calls of one identity under one policy with
\* maxRequests = N that fall in one window, the k-th call is allowed exactly
\* when k <= N, so exactly the first N are allowed and every later one is
\* denied.
C1_FirstNAllowed ==
    /\ (last.seq > 0 /\ last.pure) =>
          (last.result.allowed <=> last.k <= last.config.maxRequests)
    /\ \A ip \in IPs, c \in Configs :
          win[ip].configs = {c} =>
             win[ip].admitted[c] = Min(win[ip].n, c.maxRequests)

\* A fresh key's window under the policy N = 2 at its third call, denied.
C1_Witness ==
    /\ last.seq > 0 /\ last.pure /\ last.fresh
    /\ last.config.maxRequests = 2
    /\ last.k = 3
    /\ ~last.result.allowed
    /\ win[last.ip].admitted[last.config] = 2

\* C2: the outcome of an admission check under one policy is the outcome the
\* same identity would get had its checks under the other policies never
\* been made: that of a window kept per (identity, policy).
C2_IndependentWindows ==
    (last.seq > 0 /\ last.config \in NamedConfigs) => last.result = last.refResult

\* C3: with requests in flight concurrently, no increment of a key's counter
\* is lost (the stored count is the number of admissions of the window) and
\* the admissions of a key under one policy in one window never exceed the
\* policy's maxRequests.
C3_AtomicAdmission ==
    \A ip \in IPs :
        /\ \A c \in Configs : win[ip].admitted[c] <= c.maxRequests
        /\ rateLimitStore[ip] # NoEntry =>
              rateLimitStore[ip].count = SumOver(win[ip].admitted, Configs)

\* Two admitted requests are in flight and a third of the same identity has
\* just been denied.
C3_Witness ==
    /\ Cardinality({s \in Slots : wreq[s].pc = "handler"}) = 2
    /\ last.seq = 3 /\ last.k = 3
    /\ ~last.result.allowed

\* C4: a check that follows a denial of the same key at time t with
\* resetIn = r, made at time t + r or later, is allowed and starts a window
\* with count = 1.
C4_AllowedAfterResetIn ==
    (last.seq > 0 /\ last.prev # NoDenial /\ last.time >= last.prev.t + last.prev.r) =>
        /\ last.result.allowed
        /\ rateLimitStore[last.ip].count = 1

\* C5: a denied check reports resetIn > 0, the time left until the stored
\* window ends, and remaining = 0.
C5_DeniedResetInPositive ==
    (last.seq > 0 /\ ~last.result.allowed) =>
        /\ last.result.resetIn > 0
        /\ last.result.resetIn = rateLimitStore[last.ip].resetTime - last.time
        /\ last.result.remaining = 0

DeniedCall == calls' = calls + 1 /\ ~last'.result.allowed

\* C6 as claimed: a denied check leaves every entry of the store as it was.
C6_DeniedChangesNothing ==
    [][DeniedCall => (rateLimitStore' = rateLimitStore /\ otherKeys' = otherKeys)]_vars

\* C6 as amended: a denied check leaves the checked key's entry and every
\* entry whose window is live as they were; the only entries that change are
\* expired ones, removed when the table holds more than CleanUpThreshold
\* entries.
C6_DeniedChangesNoLiveEntry ==
    [][DeniedCall =>
         /\ rateLimitStore'[last'.ip] = rateLimitStore[last'.ip]
         /\ \A ip \in IPs :
               rateLimitStore'[ip] # rateLimitStore[ip] =>
                  /\ CleanUpNeeded(rateLimitStore, otherKeys)
                  /\ rateLimitStore[ip].resetTime < now
                  /\ rateLimitStore'[ip] = NoEntry
         /\ otherKeys' # otherKeys =>
               /\ CleanUpNeeded(rateLimitStore, otherKeys)
               /\ otherKeys.resetTime < now
               /\ otherKeys' = NoOtherKeys]_vars

\* A denied check has just run the clean-up and removed the expired entries
\* of the other identities, its own window still having time to run.
C6_Witness ==
    /\ last.seq > 0 /\ ~last.result.allowed
    /\ last.cleaned
    /\ last.result.resetIn > 0
    /\ otherKeys = NoOtherKeys
    /\ rateLimitStore[last.ip] # NoEntry

\* C7: when the embedding of a batch of an upload fails, the upload is
\* answered with an error, the failing step leaves the index as it was, and
\* the index holds no record written by that upload, whatever the batch.
C7_FailedEmbeddingWritesNothing ==
    [][\A r \in ReqIds :
          reqs'[r].embedFailed =>
             /\ reqs'[r].pc = "done"
             /\ reqs'[r].response.status = 500
             /\ reqs'[r].response.error # Null
             /\ \A ns \in Namespaces : \A x \in index'[ns] : x.by # r
             /\ ~reqs[r].embedFailed => index' = index]_vars

\* An upload of more than one batch failed after its first batch was
\* embedded, in a namespace that holds records.
C7_Witness ==
    \E r \in ReqIds :
        /\ reqs[r].kind = "upload" /\ reqs[r].embedFailed
        /\ reqs[r].batches = 1
        /\ index[getIndex(reqs[r].ip)] # {}

\* C8: the records a list or an ask answers from, and the records a delete
\* removes, were all ingested under the identity of the request.
C8_NamespaceIsolation ==
    \A r \in ReqIds :
        \A x \in reqs[r].response.used \cup reqs[r].response.removed :
            x.owner = reqs[r].ip

\* One identity has listed its documents, answered from its records, and
\* another has deleted a document of its own.
C8_Witness ==
    \E r1, r2 \in ReqIds :
        /\ reqs[r1].kind = "list" /\ reqs[r1].response.used # {}
        /\ reqs[r2].kind = "delete" /\ reqs[r2].response.removed # {}
        /\ reqs[r1].ip # reqs[r2].ip

\* C9: the response to a list request depends on the caller's namespace
\* alone. In the run where the other identities have uploaded nothing the
\* index holds the caller's records only, so in every run totalVectors has to
\* be the number of records of the caller's namespace when the statistics
\* were read.
C9_ListReadsOwnNamespaceOnly ==
    \A r \in ReqIds :
        (reqs[r].kind = "list" /\ reqs[r].pc = "done" /\ reqs[r].response.status = 200)
            => reqs[r].response.totalVectors = reqs[r].response.ownCount

\* The step in which the delete request r, which ran alone, is answered 200.
DeleteSucceeds(r) ==
    /\ reqs[r].kind = "delete" /\ reqs[r].pc = "deleteMany"
    /\ reqs'[r].pc = "done" /\ reqs'[r].response.status = 200
    /\ reqs[r].alone

\* C10: a delete that ran alone removes every record of the document from
\* the caller's namespace and nothing else, in any namespace, and reports
\* their number, for any number N >= 1 of records.
C10_DeleteRemovesAll ==
    [][\A r \in ReqIds :
          DeleteSucceeds(r) =>
             LET ns == getIndex(reqs[r].ip)
                 doc == Matching(index, ns, reqs[r].name)
             IN  /\ doc # {}
                 /\ index' = [index EXCEPT ![ns] = @ \ doc]
                 /\ reqs'[r].response.deletedChunks = Cardinality(doc)
                 /\ Matching(index', ns, reqs[r].name) = {}]_vars

\* The step in which the query of the delete request r resolves.
DeleteQueryResolves(r) ==
    /\ reqs[r].kind = "delete" /\ reqs[r].pc = "query"
    /\ reqs'[r].pc # "query"
    /\ reqs'[r].response.status # 500

\* The delete request r was answered after the delete request before it had
\* succeeded, alone, for the same name and identity, and ran alone too.
SecondDelete(r) ==
    /\ r > 1
    /\ reqs[r - 1].kind = "delete" /\ reqs[r - 1].pc = "done"
    /\ reqs[r - 1].response.status = 200 /\ reqs[r - 1].alone
    /\ reqs[r].kind = "delete" /\ reqs[r].alone
    /\ reqs[r].name = reqs[r - 1].name /\ reqs[r].ip = reqs[r - 1].ip

\* C11: when the query of a delete finds no record of the name in the
\* caller's namespace the request is answered 404 at once, with no bulk
\* delete, and the index is unchanged; and the query of a delete that comes
\* right after a successful delete of the same name finds none.
C11_DeleteNotFound ==
    [][\A r \in ReqIds :
          DeleteQueryResolves(r) =>
             /\ Matching(index, getIndex(reqs[r].ip), reqs[r].name) = {} =>
                   /\ reqs'[r].pc = "done"
                   /\ reqs'[r].response.status = 404
                   /\ index' = index
             /\ SecondDelete(r) =>
                   /\ reqs'[r].pc = "done"
                   /\ reqs'[r].response.status = 404]_vars

\* The delays of the retry policy, in milliseconds.
Schedule == <<1000, 2000, 4000, 8000, 16000>>

\* k failed calls each followed by its delay, then one more call.
ExpectedEvents(k) ==
    [n \in 1..(2 * k + 1) |->
        IF n % 2 = 1 THEN CallEvent ELSE DelayEvent(Schedule[n \div 2])]

EmbItems == {emb.items[i] : i \in 1..Len(emb.items)}

\* C12: a getEmbedding whose provider answered k transient failures and then
\* a success has k < 5, returns the vector of its text, and has made k + 1
\* calls and k delays, the i-th delay of 1000 * 2^(i-1) ms between the i-th
\* and the (i+1)-th call; and a success is never followed by a failure.
C12_RetryThenSuccess ==
    \A item \in EmbItems :
        /\ item.pc = "resolved" =>
              /\ item.transients < 5
              /\ item.result = Embedding(item.text)
              /\ item.calls = item.transients + 1
              /\ item.events = ExpectedEvents(item.transients)
        /\ IsOk(item.lastStatus) => item.pc = "resolved"

\* A getEmbedding has succeeded at its fifth call.
C12_Witness ==
    \E item \in EmbItems :
        item.pc = "resolved" /\ item.transients = 4 /\ item.calls = 5

\* C13: a getEmbedding never makes a sixth call; after five transient
\* failures it makes no further call and fails with the error of the fifth.
C13_RetriesExhausted ==
    \A item \in EmbItems :
        /\ item.calls <= 5
        /\ item.transients = 5 =>
              /\ item.pc \in {"sleep", "rejected"}
              /\ item.calls = 5
              /\ item.pc = "rejected" =>
                    item.error = ApiError(ErrorText(item.lastStatus, 5))

\* A getEmbedding has failed after five transient failures.
C13_Witness ==
    \E item \in EmbItems :
        item.pc = "rejected" /\ item.transients = 5 /\ item.lastStatus = 429

\* A status that is neither OK nor 429 nor a server error.
IsPermanent(status) == status # 0 /\ ~IsOk(status) /\ status # 429 /\ status < 500

\* C14: the step in which a getEmbedding receives a permanent error fails it
\* with that error, with no delay and no further call, and a failed
\* getEmbedding takes no further step.
C14_PermanentNotRetried ==
    [][\A i \in 1..Len(emb.items) :
          Len(emb'.items) = Len(emb.items) =>
             LET a == emb.items[i]
                 b == emb'.items[i]
             IN  /\ (a.pc = "fetch" /\ b.pc # "fetch" /\ IsPermanent(b.lastStatus)) =>
                       /\ b.pc = "rejected"
                       /\ b.error = ApiError(ErrorText(b.lastStatus, a.calls))
                       /\ b.calls = a.calls
                       /\ b.events = a.events
                 /\ a.pc = "rejected" => b = a]_vars

\* A getEmbedding has failed on a permanent error that followed transient
\* failures.
C14_Witness ==
    \E item \in EmbItems :
        /\ item.pc = "rejected" /\ item.lastStatus = 400
        /\ item.transients = 2 /\ item.calls = 3

\* C15: a getEmbeddingsBatch that resolves returns the vector of texts[i] at
\* position i, one per text; and when one of its getEmbedding calls has
\* failed the batch has failed and returns no vector.
C15_BatchInInputOrder ==
    /\ emb.pc = "resolved" =>
          /\ Len(emb.result) = Len(emb.texts)
          /\ \A k \in 1..Len(emb.texts) : emb.result[k] = Embedding(emb.texts[k])
    /\ (\E item \in EmbItems : item.pc = "rejected") =>
          /\ emb.pc = "rejected"
          /\ emb.result = <<>>

\* A batch of two different texts has resolved, the second call first.
C15_Witness ==
    /\ emb.pc = "resolved"
    /\ emb.order = <<2, 1>>
    /\ emb.texts[1] # emb.texts[2]

\* The step in which the upload request r is answered 200.
UploadSucceeds(r) ==
    /\ reqs[r].kind = "upload" /\ reqs[r].pc = "upsert"
    /\ reqs'[r].pc = "done" /\ reqs'[r].response.status = 200

\* The records that the request r wrote.
WrittenBy(idx, r) == UNION {{x \in idx[ns] : x.by = r} : ns \in Namespaces}

\* C16: the step that answers an upload of N chunks with success is the one
\* step in which it writes: before it the index holds no record of the
\* upload, after it the caller's namespace holds exactly N, one per ordinal
\* 0..N-1, each with the document name, the text of its chunk and the vector
\* of that chunk, no other namespace has changed, and chunksCount is N.
C16_UploadWritesNRecords ==
    [][\A r \in ReqIds :
          UploadSucceeds(r) =>
             LET q == reqs[r]
                 N == Len(q.chunks)
                 ns == getIndex(q.ip)
                 written == {x \in index'[ns] : x.by = r}
             IN  /\ WrittenBy(index, r) = {}
                 /\ WrittenBy(index', r) = written
                 /\ Cardinality(written) = N
                 /\ {x.metadata.chunkIndex : x \in written} = 0..(N - 1)
                 /\ \A x \in written :
                       /\ x.metadata.documentName = q.name
                       /\ x.metadata.chunk = q.chunks[x.metadata.chunkIndex + 1]
                       /\ x.values = Embedding(q.chunks[x.metadata.chunkIndex + 1])
                 /\ \A n2 \in Namespaces \ {ns} : index'[n2] = index[n2]
                 /\ reqs'[r].response.chunksCount = N]_vars

\* An upload of two batches has succeeded and its records are in the index.
C16_Witness ==
    \E r \in ReqIds :
        /\ reqs[r].kind = "upload" /\ reqs[r].response.status = 200
        /\ reqs[r].response.chunksCount = MaxChunks
        /\ Cardinality(WrittenBy(index, r)) = MaxChunks

\* chunkText has returned for a document of the three paragraphs, each of
\* which fits a chunk.
ChunkedThreeParagraphs(p1, p2, p3) ==
    /\ chunker.pc = "done"
    /\ chunker.text = ThreeParagraphs(p1, p2, p3)
    /\ \A p \in {p1, p2, p3} : Len(p) <= chunker.maxLength

C20_ChunksWithinMaxLength ==
    (chunker.pc = "done" /\ TrimString(chunker.text) # <<>>) =>
        \A k \in 1..Len(chunker.chunks) : Len(chunker.chunks[k]) <= chunker.maxLength

\* C18: the records an upload has built have pairwise different ids, and the
\* step in which an upload writes them replaces no record of another
\* document name or of another upload timestamp: every such record has an id
\* different from those written, and is still in the index afterwards.
C18_IdsUnique ==
    [][\A r \in ReqIds :
          /\ \A j, k \in DOMAIN reqs'[r].vectors :
                j # k => reqs'[r].vectors[j].id # reqs'[r].vectors[k].id
          /\ UploadSucceeds(r) =>
                \A ns \in Namespaces : \A x \in index[ns] :
                    (x.metadata.documentName # reqs[r].name \/ x.ts # reqs[r].ts) =>
                        /\ \A v \in Range(reqs[r].vectors) : v.id # x.id
                        /\ x \in index'[ns]]_vars

\* Two uploads of one name at different timestamps have written to one
\* namespace, and the records of both are there.
C18_Witness ==
    \E ns \in Namespaces : \E x, y \in index[ns] :
        /\ x.by = 1 /\ y.by = 2
        /\ x.metadata.documentName = y.metadata.documentName
        /\ x.ts # y.ts
        /\ Cardinality(WrittenBy(index, 1)) = MaxChunks

\* C19: when two concurrent uploads of one name by one identity have both
\* succeeded, the index holds the n1 records of the one and the n2 records
\* of the other.
C19_ConcurrentUploadsCoexist ==
    \A r1, r2 \in ReqIds :
        (/\ r1 # r2
         /\ reqs[r1].kind = "upload" /\ reqs[r1].response.status = 200
         /\ reqs[r2].kind = "upload" /\ reqs[r2].response.status = 200
         /\ reqs[r1].name = reqs[r2].name /\ reqs[r1].ip = reqs[r2].ip
         /\ ~reqs[r1].alone /\ ~reqs[r2].alone)
        => /\ Cardinality(WrittenBy(index, r1)) = reqs[r1].response.chunksCount
           /\ Cardinality(WrittenBy(index, r2)) = reqs[r2].response.chunksCount

\* chunkText has returned for a text that is not blank.
ChunkedNonBlank == chunker.pc = "done" /\ TrimString(chunker.text) # <<>>

\* C21: a text that is not blank has at least one chunk, and none of its
\* chunks is the empty string.
C21_NoEmptyChunk ==
    ChunkedNonBlank =>
        /\ Len(chunker.chunks) >= 1
        /\ \A k \in 1..Len(chunker.chunks) : chunker.chunks[k] # <<>>

IsNotWhitespace(c) == c \notin Whitespace

RECURSIVE Concatenation(_)
Concatenation(strs) ==
    IF strs = <<>> THEN <<>> ELSE Head(strs) \o Concatenation(Tail(strs))

\* C22: the characters that are not whitespace, read through the chunks in
\* order, are those of the text, in the same order.
C22_ChunksReconstructText ==
    chunker.pc = "done" =>
        SelectSeq(Concatenation(chunker.chunks), IsNotWhitespace)
            = SelectSeq(chunker.text, IsNotWhitespace)

\* A text of two paragraphs has been chunked into three chunks, two of them
\* split out of a long word.
C22_Witness ==
    /\ chunker.pc = "done"
    /\ chunker.text = <<"a", "b", "\n", "\n", "b">>
    /\ chunker.maxLength = 1
    /\ chunker.chunks = <<<<"a">>, <<"b">>, <<"b">>>>

\* The pieces that the claim gives a word: ceil(len / max) of them, all of
\* max characters but the last.
ExpectedPieces(word, max) ==
    LET n == IF Len(word) % max = 0 THEN Len(word) \div max ELSE Len(word) \div max + 1
    IN  [j \in 1..n |->
            SubSeq(word, (j - 1) * max + 1, IF j * max <= Len(word) THEN j * max ELSE Len(word))]

\* The words of the chunked text that are longer than maxLength.
LongWords ==
    {w \in Range(Split(chunker.text, Whitespace, 1)) : Len(w) > chunker.maxLength}

\* C23: every word longer than maxLength is found in the chunks as its
\* ceil(len / maxLength) pieces, one chunk each, next to each other and in
\* order.
C23_LongWordSplit ==
    chunker.pc = "done" =>
        \A w \in LongWords :
            LET pieces == ExpectedPieces(w, chunker.maxLength)
            IN  \E k \in 1..Len(chunker.chunks) :
                    /\ k + Len(pieces) - 1 <= Len(chunker.chunks)
                    /\ SubSeq(chunker.chunks, k, k + Len(pieces) - 1) = pieces

\* A word of five characters between two short words has been split into
\* three pieces.
C23_Witness ==
    /\ chunker.pc = "done"
    /\ chunker.maxLength = 1
    /\ chunker.text = <<"a", " ", "b", "a", "b">>
    /\ chunker.chunks = <<<<"a">>, <<"b">>, <<"a">>, <<"b">>>>

\* A CRLF sequence in s.
HasCRLF(s) == \E k \in 1..(Len(s) - 1) : s[k] = "\r" /\ s[k + 1] = "\n"

\* A run of 3 or more consecutive newlines in s.
HasLongNewlineRun(s) == \E k \in 1..Len(s) : RunLength(s, k, {"\n"}) >= 3

\* C24: whatever the type of the uploaded file, the text handed to chunkText
\* contains no CRLF sequence and no run of 3 or more consecutive newlines.
C24_ChunkedTextNormalized ==
    extraction.chunked =>
        ~HasCRLF(extraction.text) /\ ~HasLongNewlineRun(extraction.text)

\* The request q, about to be validated, fails the validation of its route:
\* an upload without a file or without content, a question that is missing,
\* blank or longer than 1000 characters once trimmed, a delete without a name.
FailsValidation(q) ==
    /\ q.pc \in {"formData", "json"}
    /\ \/ q.kind = "upload" /\ (q.name = Null \/ q.text = Text(0))
       \/ q.kind = "ask" /\ \/ ~q.question.given
                            \/ q.question.length - q.question.padding = 0
                            \/ q.question.length - q.question.padding > 1000
       \/ q.kind = "delete" /\ q.name = Null

\* C25: a request that fails the validation of its route is answered 400, has
\* called no provider (no embedding, no answer generation, no index read or
\* write) and leaves the index as it was.
C25_ValidationFailureCallsNothing ==
    [][\A r \in ReqIds :
          FailsValidation(reqs[r]) /\ reqs'[r].pc # reqs[r].pc =>
              /\ reqs'[r].pc = "done"
              /\ reqs'[r].response.status = 400
              /\ reqs'[r].external = 0
              /\ ~reqs'[r].failed
              /\ index' = index]_vars

\* A question of 1001 characters and a blank question have both been answered
\* 400, over an index that holds records.
C25_Witness ==
    /\ reqs[1].pc = "done" /\ reqs[1].kind = "ask"
    /\ reqs[1].response.status = 400
    /\ reqs[1].response.error = "Question is too long (max 1000 characters)"
    /\ reqs[1].external = 0
    /\ reqs[2].pc = "done" /\ reqs[2].kind = "ask"
    /\ reqs[2].response.status = 400
    /\ reqs[2].response.error = "Question cannot be empty"
    /\ reqs[2].external = 0
    /\ \E ns \in Namespaces : index[ns] # {}

\* The records of namespace ns that carry this document name.
RecordsNamed(ns, name) == {x \in index[ns] : x.metadata.documentName = name}

\* The positions of the matches that carry this document name.
MatchesNamed(matches, name) ==
    {k \in 1..Len(matches) : matches[k].metadata.documentName = name}

\* The step answers the list request r with a list.
ListAnswered(r) ==
    /\ reqs[r].kind = "list" /\ reqs[r].pc = "query"
    /\ reqs'[r].pc = "done" /\ reqs'[r].response.status = 200

\* C26: the list has one summary per document name among the sampled matches,
\* at most 100 records of the caller's namespace; its chunk count is the
\* number of sampled matches of that name and its uploadedAt that of the
\* first of them; so a count never exceeds the number of records of that name
\* and equals it when the namespace holds at most 100 records.
C26_ListSummarisesSample ==
    [][\A r \in ReqIds : ListAnswered(r) =>
          LET ns == getIndex(reqs[r].ip)
              matches == reqs'[r].response.matches
              documents == reqs'[r].response.documents
          IN  /\ Len(matches) <= 100
              /\ \A k \in 1..Len(matches) : matches[k] \in index[ns]
              /\ \A j, k \in 1..Len(matches) : matches[j] = matches[k] => j = k
              /\ {documents[k].name : k \in 1..Len(documents)}
                    = {matches[k].metadata.documentName : k \in 1..Len(matches)}
              /\ \A j, k \in 1..Len(documents) :
                    documents[j].name = documents[k].name => j = k
              /\ \A k \in 1..Len(documents) :
                    LET d == documents[k]
                        at == MatchesNamed(matches, d.name)
                        first == CHOOSE i \in at : \A j \in at : i <= j
                    IN  /\ d.chunks = Cardinality(at)
                        /\ d.uploadedAt = matches[first].metadata.uploadedAt
                        /\ d.chunks <= Cardinality(RecordsNamed(ns, d.name))
                        /\ Cardinality(index[ns]) <= 100 =>
                              d.chunks = Cardinality(RecordsNamed(ns, d.name))]_vars

\* A list over a namespace of 101 records has been answered from 100 of them:
\* a document of 100 records, uploaded at two times, is listed with 99 chunks.
C26_Witness ==
    /\ reqs[1].pc = "done" /\ reqs[1].kind = "list"
    /\ reqs[1].response.status = 200
    /\ Cardinality(index["10.0.0.1"]) = 101
    /\ Len(reqs[1].response.matches) = 100
    /\ \E k \in 1..Len(reqs[1].response.documents) :
          /\ reqs[1].response.documents[k].name = "a.txt"
          /\ reqs[1].response.documents[k].chunks = 99
          /\ Cardinality(RecordsNamed("10.0.0.1", "a.txt")) = 100
          /\ \E i, j \in MatchesNamed(reqs[1].response.matches, "a.txt") :
                reqs[1].response.matches[i].metadata.uploadedAt
                    # reqs[1].response.matches[j].metadata.uploadedAt

\* The step answers the ask request r with an answer.
AskAnswered(r) ==
    /\ reqs[r].kind = "ask" /\ reqs[r].pc \in {"query", "generate"}
    /\ reqs'[r].pc = "done" /\ reqs'[r].response.status = 200

\* C27: an answered ask request lists one source per match the index
\* returned, in the index's order, best match first, at most 5 of them, each
\* with the match's documentName and chunk; without matches it lists no
\* source and has not called the answer generator.
C27_SourcesInRankedOrder ==
    [][\A r \in ReqIds : AskAnswered(r) =>
          LET matches == reqs[r].matches
              sources == reqs'[r].response.sources
          IN  /\ Len(sources) = Len(matches)
              /\ Len(sources) <= 5
              /\ \A k \in 1..Len(sources) :
                    /\ sources[k].documentName = matches[k].metadata.documentName
                    /\ sources[k].chunk = matches[k].metadata.chunk
              /\ \A j, k \in 1..Len(sources) :
                    j < k => sources[j].relevanceScore >= sources[k].relevanceScore
              /\ reqs[r].pc = "query" <=> sources = <<>>
              /\ reqs[r].pc = "query" => reqs'[r].external = 2]_vars

\* An ask over a namespace of more than 5 records has been answered with 5
\* sources of two documents, the best first.
C27_Witness ==
    \E r \in ReqIds :
        /\ reqs[r].pc = "done" /\ reqs[r].kind = "ask"
        /\ reqs[r].response.status = 200
        /\ Cardinality(index[getIndex(reqs[r].ip)]) > 5
        /\ Len(reqs[r].response.sources) = 5
        /\ reqs[r].response.sources[1].relevanceScore = 100
        /\ reqs[r].response.sources[5].relevanceScore = 0
        /\ reqs[r].response.sources[1].documentName
              # reqs[r].response.sources[2].documentName
        /\ reqs[r].external = 3

\* The health request has been admitted and answered.
HealthAnswered == health.pc = "done" /\ health.status # 429

\* C28: the embedding probe never throws and is true exactly when its
\* getEmbedding call has succeeded (false without the API key, after a
\* permanent error and after the retries are exhausted); the health route
\* answers 200 "healthy" exactly when the three probes returned true, and 503
\* "degraded" otherwise.
C28_HealthProbe ==
    HealthAnswered =>
        /\ health.item.pc \in {"resolved", "rejected"}
        /\ health.body.embeddings = (health.item.pc = "resolved")
        /\ health.item.pc = "resolved" <=> health.item.lastStatus = 200
        /\ health.status \in {200, 503}
        /\ health.status = 200 <=>
              health.body.database /\ health.body.embeddings /\ health.body.llm
        /\ health.body.status = IF health.status = 200 THEN "healthy" ELSE "degraded"

\* The probe's getEmbedding has given up after MAX_RETRIES transient answers
\* while the two other probes succeeded: the route answered 503.
C28_Witness ==
    /\ HealthAnswered
    /\ health.item.pc = "rejected"
    /\ health.item.transients = MAX_RETRIES
    /\ health.body.database /\ health.body.llm /\ ~health.body.embeddings
    /\ health.status = 503

\* C29: a request for which a provider call has failed (an embedding call,
\* an index call or the answer generation) is answered at once with an error
\* response that carries the failure, never with a success.
C29_ProviderErrorsSurface ==
    \A r \in ReqIds :
        reqs[r].failed =>
            /\ reqs[r].pc = "done"
            /\ reqs[r].kind \in {"upload", "list", "delete", "ask"}
            /\ reqs[r].response.status = 500
            /\ reqs[r].response.error # Null

\* An ask whose answer generation failed, after its embedding and its query
\* had succeeded, and an upload whose upsert failed, were both answered 500.
C29_Witness ==
    /\ reqs[1].pc = "done" /\ reqs[1].kind = "ask"
    /\ reqs[1].failed /\ reqs[1].external = 3
    /\ reqs[1].response.status = 500
    /\ reqs[2].pc = "done" /\ reqs[2].kind = "upload"
    /\ reqs[2].failed /\ ~reqs[2].embedFailed
    /\ reqs[2].response.status = 500

\* The step in which the deleteMany of the delete request r succeeds.
DeleteManySucceeds(r) ==
    /\ reqs[r].kind = "delete" /\ reqs[r].pc = "deleteMany"
    /\ reqs'[r].pc = "done" /\ reqs'[r].response.status = 200

\* The records of the document of delete request r that were written after
\* its query was answered.
WrittenAfterQuery(r) ==
    {x \in index[getIndex(reqs[r].ip)] \ reqs[r].before :
        x.metadata.documentName = reqs[r].name}

\* C30: a delete that races an upload of the same document removes only the
\* ids its own query returned, every record of the document written after
\* that query survives it, and it reports success.
C30_DeleteRacingUpload ==
    [][\A r \in ReqIds : DeleteManySucceeds(r) =>
          LET ns == getIndex(reqs[r].ip)
          IN  /\ index[ns] \ index'[ns] = {x \in index[ns] : x.id \in reqs[r].ids}
              /\ \A ns2 \in Namespaces \ {ns} : index'[ns2] = index[ns2]
              /\ WrittenAfterQuery(r) \subseteq index'[ns]
              /\ reqs'[r].response.deletedChunks = Cardinality(reqs[r].ids)]_vars

\* C30, its first and last parts: the delete removes the records whose ids
\* its query returned and no other, and reports their number.
C30_DeleteRemovesQueriedIds ==
    [][\A r \in ReqIds : DeleteManySucceeds(r) =>
          LET ns == getIndex(reqs[r].ip)
          IN  /\ index[ns] \ index'[ns] = {x \in index[ns] : x.id \in reqs[r].ids}
              /\ \A ns2 \in Namespaces \ {ns} : index'[ns2] = index[ns2]
              /\ reqs'[r].response.deletedChunks = Cardinality(reqs[r].ids)]_vars

-----------------------------------------------------------------------------
(* Claims about the embedding calls of an upload *)

\* The getEmbedding calls of the upload so far: those of the earlier batches
\* and those of the current one.
UploadItems == emb.earlier \o emb.items

\* The getEmbedding calls that have not settled.
CallsInFlight == {k \in 1..Len(UploadItems) : ~ItemSettled(UploadItems[k])}

\* C31: within one upload at most 5 getEmbedding calls (one batch) are in
\* flight at any time, the calls of a batch are started only after every call
\* of the batch before has succeeded, and the upsert is issued only after
\* the embedding of every chunk of the document has succeeded.
C31_BatchesOneAfterTheOther ==
    /\ Cardinality(CallsInFlight) <= BATCH_SIZE
    /\ Len(emb.items) <= BATCH_SIZE
    /\ \A k \in 1..Len(emb.earlier) : emb.earlier[k].pc = "resolved"
    /\ reqs[1].kind = "upload" /\ reqs[1].pc = "upsert" =>
          /\ Len(UploadItems) = Len(reqs[1].chunks)
          /\ \A k \in 1..Len(UploadItems) :
                /\ UploadItems[k].pc = "resolved"
                /\ UploadItems[k].text = reqs[1].chunks[k]
    /\ reqs[1].kind = "upload" /\ reqs[1].response.status = 200 =>
          \A k \in 1..Len(UploadItems) : UploadItems[k].pc = "resolved"

\* An upload of more than one batch is about to upsert, after a call of its
\* first batch was answered 429 or 5xx and tried again.
C31_Witness ==
    /\ reqs[1].kind = "upload" /\ reqs[1].pc = "upsert"
    /\ Len(emb.earlier) = BATCH_SIZE
    /\ Len(emb.items) >= 1
    /\ \E k \in 1..Len(emb.earlier) : emb.earlier[k].transients > 0

-----------------------------------------------------------------------------
(* Claims about admission control in the handlers *)

\* The policy each handler passes to checkRateLimit.
PolicyOf(kind) ==
    CASE kind = "upload" -> uploadRateLimit
      [] kind = "ask" -> askRateLimit
      [] kind = "health" -> healthRateLimit
      [] OTHER -> defaultConfig

\* What checkRateLimit returns to a request of this kind and identity now.
AdmissionResult(kind, ip) ==
    checkRateLimit(rateLimitStore, otherKeys, ip, PolicyOf(kind), now).result

\* Math.ceil(resetIn / 1000) = seconds
IsCeilSeconds(seconds, resetIn) ==
    seconds * 1000 >= resetIn /\ (seconds - 1) * 1000 < resetIn

\* C32: in every handler (upload, list, delete, ask, health) a request that
\* the rate limiter denies is answered 429 with a Retry-After of
\* ceil(resetIn / 1000) seconds in the step it arrives in, and has chunked
\* nothing, called neither the embedding provider nor the answer generator,
\* and neither read nor written the index.
C32_DeniedRequestDoesNothing ==
    [][/\ reqs[1].pc = "idle" /\ reqs'[1].pc # "idle"
            /\ ~AdmissionResult(reqs'[1].kind, reqs'[1].ip).allowed =>
          /\ reqs'[1].pc = "done"
          /\ reqs'[1].response.status = 429
          /\ IsCeilSeconds(reqs'[1].response.retryAfter,
                           AdmissionResult(reqs'[1].kind, reqs'[1].ip).resetIn)
          /\ reqs'[1].external = 0
          /\ reqs'[1].chunks = <<>> /\ reqs'[1].vectors = <<>>
          /\ reqs'[1].response.used = {} /\ reqs'[1].response.removed = {}
          /\ index' = index
       /\ health.pc = "idle" /\ health'.pc # "idle"
            /\ ~AdmissionResult("health", health'.ip).allowed =>
          /\ health'.pc = "done"
          /\ health'.status = 429
          /\ IsCeilSeconds(health'.retryAfter,
                           AdmissionResult("health", health'.ip).resetIn)
          /\ health'.item = NoItem
          /\ health'.listIndexes = "pending" /\ health'.generateContent = "pending"
          /\ index' = index
       /\ reqs[1].response.status = 429 => reqs'[1] = reqs[1]
       /\ health.status = 429 => health' = health]_vars

\* An upload and a health request have both been denied, 59999 ms before
\* the window ends.
C32_Witness ==
    /\ reqs[1].kind = "upload" /\ reqs[1].response.status = 429
    /\ reqs[1].response.retryAfter = 60
    /\ health.status = 429 /\ health.retryAfter = 60

-----------------------------------------------------------------------------
(* Claims about the clean-up of the rate-limit table *)

\* A call of checkRateLimit has just been made.
CheckCalled == calls' = calls + 1

\* C33: the clean-up of the rate-limit table runs only when the table holds
\* more than CleanUpThreshold entries, removes only entries whose window has
\* expired, never removes an entry whose window is live, and the check it
\* runs in returns what the same check returns on a table too small to be
\* cleaned.
C33_CleanUpOnlyExpired ==
    [][CheckCalled =>
         /\ \A ip \in IPs \ {last'.ip} :
               rateLimitStore'[ip] # rateLimitStore[ip] =>
                  /\ StoreSize(rateLimitStore, otherKeys) > CleanUpThreshold
                  /\ rateLimitStore[ip].resetTime < now
                  /\ rateLimitStore'[ip] = NoEntry
         /\ otherKeys' # otherKeys =>
               /\ StoreSize(rateLimitStore, otherKeys) > CleanUpThreshold
               /\ otherKeys.resetTime < now
               /\ otherKeys' = NoOtherKeys
         /\ \A ip \in IPs :
               rateLimitStore[ip] # NoEntry /\ rateLimitStore[ip].resetTime >= now =>
                  rateLimitStore'[ip] # NoEntry
         /\ otherKeys.n > 0 /\ otherKeys.resetTime >= now => otherKeys' = otherKeys
         /\ last'.result =
               checkRateLimit(rateLimitStore, NoOtherKeys, last'.ip, last'.config,
                              now).result
         /\ rateLimitStore'[last'.ip] =
               checkRateLimit(rateLimitStore, NoOtherKeys, last'.ip, last'.config,
                              now).store[last'.ip]]_vars

\* An allowed check has just run the clean-up: the expired entries of the
\* other identities are gone and a live entry of another identity is kept.
C33_Witness ==
    /\ last.seq > 0 /\ last.result.allowed
    /\ last.cleaned
    /\ otherKeys = NoOtherKeys
    /\ \E ip \in IPs \ {last.ip} :
          rateLimitStore[ip] # NoEntry /\ rateLimitStore[ip].resetTime >= now

-----------------------------------------------------------------------------
(* Claims about the namespace of a request *)

\* C34: every index operation of a request is issued against the namespace
\* named by the identity getClientIP returned, and for no identity does a
\* request operate on the default, un-namespaced partition of the index: the
\* partition of an upsert, a query or a deleteMany in flight is not the
\* default one, and every record is in the namespace named by the identity it
\* was written for, never in the default partition.
C34_NeverDefaultPartition ==
    /\ \A r \in ReqIds :
          reqs[r].pc \in {"upsert", "query", "deleteMany"} =>
             getIndex(reqs[r].ip) # DefaultNamespace
    /\ index[DefaultNamespace] = {}
    /\ \A ns \in Namespaces : \A x \in index[ns] : x.owner = ns

-----------------------------------------------------------------------------
(* Claims about the embedding calls of a failed upload *)

\* The calls made to the embedding provider for the upload whose
\* getEmbeddingsBatch calls are b.
ProviderCalls(b) ==
    SumOver([k \in 1..Len(b.items) |-> b.items[k].calls], 1..Len(b.items))
        + SumOver([k \in 1..Len(b.earlier) |-> b.earlier[k].calls], 1..Len(b.earlier))

\* C35: once an upload has been answered with the error of a failed
\* embedding, no call to the embedding provider is made for it any more.
C35_NoCallAfterErrorResponse ==
    [][reqs[1].pc = "done" /\ reqs[1].embedFailed =>
          ProviderCalls(emb') = ProviderCalls(emb)]_vars

-----------------------------------------------------------------------------
(* Claims about termination *)

\* C36: when every call a handler awaits settles in the end, every upload,
\* list, delete, ask and health request that has arrived is answered in the
\* end, its response is not made a second time, and a getEmbedding call
\* settles after at most MAX_RETRIES calls to the provider.
C36_EveryRequestAnswered ==
    /\ (reqs[1].pc # "idle") ~> (reqs[1].pc = "done" /\ reqs[1].response.status # 0)
    /\ (health.pc # "idle") ~> (health.pc = "done" /\ health.status # 0)
    /\ (health.item.pc # "idle") ~> ItemSettled(health.item)
    /\ [][reqs[1].pc = "done" => reqs'[1] = reqs[1]]_vars
    /\ [][health.pc = "done" => health' = health]_vars
    /\ [](health.item.calls <= MAX_RETRIES)

\* An upload of two batches and a health request have both been answered,
\* the probe's getEmbedding call after five calls to the provider.
C36_Witness ==
    /\ reqs[1].kind = "upload" /\ reqs[1].pc = "done" /\ reqs[1].batches = 2
    /\ reqs[1].response.status = 200
    /\ health.pc = "done" /\ health.status = 503
    /\ health.item.pc = "rejected" /\ health.item.calls = MAX_RETRIES

-----------------------------------------------------------------------------
(* Claims about the last attempt of getEmbedding *)

\* C37: in getEmbedding every backoff delay is followed by another call to
\* the provider: no delay is taken after the fifth failed call, so a
\* getEmbedding that has made its five calls is not waiting, and the calls
\* and delays of one that has failed end with a call.
C37_NoDelayAfterLastAttempt ==
    \A item \in EmbItems :
        /\ item.calls = MAX_RETRIES => item.pc # "sleep"
        /\ item.pc = "rejected" /\ item.events # <<>> =>
              item.events[Len(item.events)] = CallEvent
====
